---- MODULE Spec2Model ----
(***************************************************************************)
(* Model of naghelp.collect.Expect (src/naghelp/collect.py): the step      *)
(* engine Expect._expect_steps, the session life cycle (__init__, run,     *)
(* mrun, close, __enter__, __exit__), the result filter _filter_result and *)
(* the alarm of naghelp.tools.Timeout.                                     *)
(*                                                                         *)
(* Atomicity: the only blocking points of the code are the transport reads *)
(* (pexpect's child.expect).  One action is either a call made by the      *)
(* caller, run up to its first transport read, or one transport read       *)
(* returning, followed by all the code that runs up to the next read or to *)
(* the return/raise of the call.  The remote side is the environment: at   *)
(* each read it decides which text arrives (which candidate pattern is     *)
(* found first), that the stream ends, or that nothing arrives in time.    *)
(***************************************************************************)
EXTENDS Integers, Sequences, FiniteSets, TLC

\* ------------------------------------------------------------ constants
\* Expect.KILL, Expect.BREAK, Expect.RESPONSE (collect.py:624-626)
KILL == 1
BREAK == 2
RESPONSE == 3
\* "if infinite_loop_detect > 10" (collect.py:731)
LoopLimit == 10

\* bound of the model: number of calls the caller makes on one session
MaxCalls == 4

\* Python's None, the int 0 used as "inherit the object-level value", and
\* pexpect.EOF used as a pattern
PyNone == "<None>"
Zero == "<0>"
PexpectEOF == "<pexpect.EOF>"

\* ------------------------------------------------------------ values
\* A response (second member of a step tuple): None, a str, or an int.
\* A str is kept as its text without the final newline plus the flag nl
\* (to_send[-1] == '\n'), so that to_send[:-1] is the field s.
NoResp == [ty |-> "none", s |-> "", nl |-> FALSE, n |-> 0]
Str(s) == [ty |-> "str", s |-> s, nl |-> FALSE, n |-> 0]
StrNl(s) == [ty |-> "str", s |-> s, nl |-> TRUE, n |-> 0]
IntResp(n) == [ty |-> "int", s |-> "", nl |-> FALSE, n |-> n]
Step(pat, resp) == [pat |-> pat, resp |-> resp]

\* what the transport receives: child.sendline(x) writes x + linesep,
\* child.send(x) writes x
Wire(s, nl) == [s |-> s, nl |-> nl]

\* child.before: bytes (pexpect.spawn is built without encoding, and
\* _run_cmd decodes it, collect.py:656, 777-779), None before any read
BeforeNone == [ty |-> "NoneType"]
BeforeBytes == [ty |-> "bytes"]

\* ------------------------------------------------------------ step engine
\* Expect._expect_pattern_rewrite (collect.py:666-670): None becomes
\* pexpect.EOF, a leading caret becomes the line-break class
CaretBody == [p \in {"^# "} |-> "[\\r\\n]# "]

expect_pattern_rewrite(pat) ==
    IF pat = PyNone THEN PexpectEOF
    ELSE IF pat \in DOMAIN CaretBody THEN CaretBody[pat]
    ELSE pat

\* "nb_base_expects == 1 and expects[0][0] is None" (collect.py:684-685);
\* step is the 0-based cursor of the source
IsPassGroup(steps, step) ==
    /\ Len(steps[step + 1]) = 1
    /\ steps[step + 1][1].pat = PyNone

\* a variant of expects without the next group
Expects_NoLookahead(steps, step) == steps[step + 1]

\* expects as built by collect.py:679-693: the group of the cursor,
\* followed by the next group unless the cursor is on the last group
\* (a pass group is left alone)
Expects(steps, step) ==
    IF IsPassGroup(steps, step) THEN steps[step + 1]
    ELSE IF step + 1 < Len(steps) THEN steps[step + 1] \o steps[step + 2]
    ELSE steps[step + 1]

\* patterns handed to child.expect (collect.py:694)
Patterns(steps, step) ==
    LET ex == Expects(steps, step)
    IN [i \in 1..Len(ex) |-> expect_pattern_rewrite(ex[i].pat)]

\* str.format(**context) (collect.py:707): a template is replaced by its
\* expansion, any other text is left as it is
Format(s, context) == IF s \in DOMAIN context THEN context[s] ELSE s

\* self.child.before + '.' (collect.py:717, 723): str concatenation, a
\* TypeError when child.before is bytes or None
BeforePlusDot(before) == [ok |-> before.ty = "str"]

\* The engine is a record:
\*   steps, step, infinite_loop_detect   the locals of _expect_steps
\*   st      "loop" (next iteration), "read" (blocked in child.expect),
\*           "ok" (returned ''), "payload" (returned a message), or the
\*           exception raised
\*   sent, kills, before                 the transport: data written,
\*                                       calls of child.kill(0), child.before
\*   hit     the step acted on by the last iteration (its response, whether
\*           it was found in the lookahead range)
\*   adv     number of times the cursor advanced
\*   own     number of iterations that found a step of the cursor's own
\*           group since the cursor came to its step
NoHit == [resp |-> NoResp, ahead |-> FALSE, any |-> FALSE]

NewEngine(steps, sent, kills, before, context) ==
    [steps |-> steps, step |-> 0, infinite_loop_detect |-> 0, st |-> "loop",
     sent |-> sent, kills |-> kills, before |-> before, context |-> context,
     hit |-> NoHit, adv |-> 0, own |-> 0]

\* a variant of lines 725-734 without the break of line 728-729: the loop
\* goes on at the last step
AfterResponse_NoStopAtLast(e, found) ==
    LET nb_base_expects == Len(e.steps[e.step + 1])
        ahead == found >= nb_base_expects
        e2 == IF ahead
              THEN [e EXCEPT !.step = @ + 1, !.infinite_loop_detect = 1,
                             !.adv = @ + 1, !.own = 0]
              ELSE [e EXCEPT !.own = @ + 1, !.infinite_loop_detect = @ + 1]
    IN IF e2.infinite_loop_detect > LoopLimit
       THEN [e2 EXCEPT !.st = "CollectError: Too many expect"]
       ELSE [e2 EXCEPT !.st = "loop"]

\* a variant of lines 725-734 that counts a match of the cursor's own
\* group twice
AfterResponse_OwnCountsTwice(e, found) ==
    LET nb_steps == Len(e.steps)
        nb_base_expects == Len(e.steps[e.step + 1])
        ahead == found >= nb_base_expects
        e2 == IF ahead
              THEN [e EXCEPT !.step = @ + 1, !.infinite_loop_detect = 0,
                             !.adv = @ + 1, !.own = 0]
              ELSE [e EXCEPT !.own = @ + 1, !.infinite_loop_detect = @ + 1]
    IN IF ahead /\ e2.step = nb_steps - 1
       THEN [e2 EXCEPT !.st = "ok"]
       ELSE LET e3 == [e2 EXCEPT !.infinite_loop_detect = @ + 1]
            IN IF e3.infinite_loop_detect > LoopLimit
               THEN [e3 EXCEPT !.st = "CollectError: Too many expect"]
               ELSE [e3 EXCEPT !.st = "loop"]

\* collect.py:725-734: advance on a lookahead match, stop on reaching the
\* last step, count the iteration and detect the loop
AfterResponse(e, found) ==
    LET nb_steps == Len(e.steps)
        nb_base_expects == Len(e.steps[e.step + 1])
        ahead == found >= nb_base_expects
        e2 == IF ahead
              THEN [e EXCEPT !.step = @ + 1, !.infinite_loop_detect = 0,
                             !.adv = @ + 1, !.own = 0]
              ELSE [e EXCEPT !.own = @ + 1]
    IN IF ahead /\ e2.step = nb_steps - 1
       THEN [e2 EXCEPT !.st = "ok"]
       ELSE LET e3 == [e2 EXCEPT !.infinite_loop_detect = @ + 1]
            IN IF e3.infinite_loop_detect > LoopLimit
               THEN [e3 EXCEPT !.st = "CollectError: Too many expect"]
               ELSE [e3 EXCEPT !.st = "loop"]

\* collect.py:704-724: act on the response of the step found
Respond(e, found) ==
    LET ex == Expects(e.steps, e.step)
        to_send == ex[found + 1].resp
        e1 == [e EXCEPT !.hit = [resp |-> to_send,
                                 ahead |-> found >= Len(e.steps[e.step + 1]),
                                 any |-> TRUE]]
    IN CASE to_send.ty = "none" -> AfterResponse(e1, found)
         [] to_send.ty = "str" ->
              AfterResponse(
                  [e1 EXCEPT !.sent =
                      Append(@, Wire(Format(to_send.s, e.context), to_send.nl))],
                  found)
         [] to_send.ty = "int" /\ to_send.n = KILL ->
              IF BeforePlusDot(e.before).ok
              THEN [e1 EXCEPT !.kills = @ + 1, !.st = "payload"]
              ELSE [e1 EXCEPT !.st = "TypeError"]
         [] to_send.ty = "int" /\ to_send.n = BREAK ->
              [e1 EXCEPT !.st = "ok"]
         [] to_send.ty = "int" /\ to_send.n = RESPONSE ->
              IF BeforePlusDot(e.before).ok
              THEN [e1 EXCEPT !.st = "payload"]
              ELSE [e1 EXCEPT !.st = "TypeError"]
         [] OTHER -> AfterResponse(e1, found)

\* the head of the while loop (collect.py:676-687): runs the iterations
\* that make no transport read (pass groups, found = 0) and stops at the
\* first group that needs one, or when the engine ends
RECURSIVE LoopHead(_)
LoopHead(e) ==
    IF e.st # "loop" THEN e
    ELSE IF ~(e.step < Len(e.steps)) THEN [e EXCEPT !.st = "ok"]
    ELSE IF IsPassGroup(e.steps, e.step) THEN LoopHead(Respond(e, 0))
    ELSE [e EXCEPT !.st = "read"]

\* entry of _expect_steps (collect.py:672-676)
expect_steps(steps, sent, kills, before, context) ==
    LoopHead(NewEngine(steps, sent, kills, before, context))

\* child.expect(patterns) as decided by the remote side (collect.py:697):
\*   [k |-> "text", pat |-> p]  text matching candidate p arrives first:
\*                              found is the first index of p
\*   [k |-> "eof"]              the stream ends: pexpect.EOF is found when
\*                              it is a candidate, raised otherwise
\*   [k |-> "timeout"]          nothing arrives within pexpect's own
\*                              timeout: pexpect.TIMEOUT is raised
\*   [k |-> "alarm"]            nothing arrives and the SIGALRM of the
\*                              enclosing Timeout fires: TimeoutError
FirstIndex(patterns, p) ==
    CHOOSE i \in 1..Len(patterns) :
        /\ patterns[i] = p
        /\ \A j \in 1..(i - 1) : patterns[j] # p

Has(patterns, p) == \E i \in 1..Len(patterns) : patterns[i] = p

ReadOutcomes(patterns, alarm_armed) ==
    {[k |-> "text", pat |-> patterns[i]] :
        i \in {j \in 1..Len(patterns) : patterns[j] # PexpectEOF}}
    \cup {[k |-> "eof", pat |-> PexpectEOF], [k |-> "timeout", pat |-> ""]}
    \cup (IF alarm_armed THEN {[k |-> "alarm", pat |-> ""]} ELSE {})

child_expect(patterns, o) ==
    CASE o.k = "text" -> [k |-> "found", found |-> FirstIndex(patterns, o.pat) - 1]
      [] o.k = "eof" ->
           IF Has(patterns, PexpectEOF)
           THEN [k |-> "found", found |-> FirstIndex(patterns, PexpectEOF) - 1]
           ELSE [k |-> "pexpect.EOF", found |-> 0]
      [] o.k = "timeout" -> [k |-> "pexpect.TIMEOUT", found |-> 0]
      [] OTHER -> [k |-> "TimeoutError", found |-> 0]

\* what a read met, as kept in the history of the stream
Event(o) == IF o.k = "text" THEN o.pat ELSE o.k

\* a variant of the read in which the end of the stream ends the engine
\* with success instead of the CollectError of line 698-699
EngineRead_EofIsSuccess(e, o) ==
    LET r == child_expect(Patterns(e.steps, e.step), o)
    IN CASE r.k = "found" ->
              LoopHead(Respond([e EXCEPT !.before = BeforeBytes, !.st = "loop"],
                               r.found))
         [] r.k = "pexpect.EOF" -> [e EXCEPT !.st = "ok"]
         [] OTHER -> [e EXCEPT !.st = r.k]

\* one transport read of _expect_steps and the code that follows it up to
\* the next read or the end of the engine (collect.py:694-734, 676-687)
EngineRead(e, o) ==
    LET r == child_expect(Patterns(e.steps, e.step), o)
    IN CASE r.k = "found" ->
              LoopHead(Respond([e EXCEPT !.before = BeforeBytes, !.st = "loop"],
                               r.found))
         [] r.k = "pexpect.EOF" -> [e EXCEPT !.st = "CollectError: No more data (EOF)"]
         [] OTHER -> [e EXCEPT !.st = r.k]

\* ------------------------------------------------------------ results
\* A text is the sequence of its lines ('' is <<>>).  textops.haspattern:
\* some line contains a match of the pattern.  '\S' matches a line that
\* holds a non-blank character; any other pattern used here is a literal,
\* matched when the line contains it.
BlankLines == {"", " "}
Contains == {<<"ERROR: disk full", "ERROR">>}

LineMatches(line, pat) ==
    IF pat = "\\S" THEN line \notin BlankLines
    ELSE line = pat \/ <<line, pat>> \in Contains

haspattern(text, pat) == \E i \in 1..Len(text) : LineMatches(text[i], pat)

TimeoutText == <<"<timeout>">>

\* what a filter function returns: "drop_first" returns the text without
\* its first line, "no_return" has no return statement and returns None
filter_call(filter_func, result) ==
    IF filter_func = "drop_first"
    THEN [none |-> FALSE, val |-> IF Len(result) > 0 THEN Tail(result) ELSE result]
    ELSE [none |-> TRUE, val |-> <<>>]

\* "filtered = filter_func(result, key, cmd); if filtered is not None:
\* result = filtered" (collect.py:159-162)
ApplyFilter(filter_func, result) ==
    LET filtered == filter_call(filter_func, result)
    IN IF ~filtered.none THEN filtered.val ELSE result

\* textops.extend_type (collect.py:186): the same text, as a StrExt
extend_type_DropsBlankHead(result) ==
    IF result # <<>> /\ Head(result) = "" THEN Tail(result) ELSE result
extend_type(result) == result

\* _filter_result (collect.py:156-186): the value returned, or the
\* UnexpectedResultError raised (why: "unexpected" when the unexpected
\* pattern is found, "empty" / "missing" when the expected one is not)
filter_result_ExpectedFirst(result, key, cmd, expected_pattern, unexpected_pattern, filter_func) ==
    LET r == IF filter_func # PyNone THEN ApplyFilter(filter_func, result)
             ELSE result
    IN IF /\ expected_pattern \notin {PyNone, ""}
          /\ ~haspattern(r, expected_pattern)
       THEN [ok |-> FALSE, val |-> r,
             why |-> IF expected_pattern = "\\S" THEN "empty" ELSE "missing"]
       ELSE IF /\ unexpected_pattern \notin {PyNone, ""}
               /\ r # <<>>
               /\ haspattern(r, unexpected_pattern)
            THEN [ok |-> FALSE, val |-> r, why |-> "unexpected"]
            ELSE [ok |-> TRUE, val |-> extend_type(r), why |-> ""]
filter_result_SkipsEmpty(result, key, cmd, expected_pattern, unexpected_pattern, filter_func) ==
    LET r == IF filter_func # PyNone THEN ApplyFilter(filter_func, result)
             ELSE result
    IN IF /\ unexpected_pattern \notin {PyNone, ""}
          /\ r # <<>>
          /\ haspattern(r, unexpected_pattern)
       THEN [ok |-> FALSE, val |-> r, why |-> "unexpected"]
       ELSE IF /\ expected_pattern \notin {PyNone, ""}
               /\ r # <<>>
               /\ ~haspattern(r, expected_pattern)
            THEN [ok |-> FALSE, val |-> r,
                  why |-> IF expected_pattern = "\\S" THEN "empty" ELSE "missing"]
            ELSE [ok |-> TRUE, val |-> r, why |-> ""]
filter_result(result, key, cmd, expected_pattern, unexpected_pattern, filter_func) ==
    LET r == IF filter_func # PyNone THEN ApplyFilter(filter_func, result)
             ELSE result
    IN IF /\ unexpected_pattern \notin {PyNone, ""}
          /\ r # <<>>
          /\ haspattern(r, unexpected_pattern)
       THEN [ok |-> FALSE, val |-> r, why |-> "unexpected"]
       ELSE IF /\ expected_pattern \notin {PyNone, ""}
               /\ ~haspattern(r, expected_pattern)
            THEN [ok |-> FALSE, val |-> r,
                  why |-> IF expected_pattern = "\\S" THEN "empty" ELSE "missing"]
            ELSE [ok |-> TRUE, val |-> extend_type(r), why |-> ""]

\* "x if x != 0 else self.x" (collect.py:865-871)
Effective(given, own) == IF given # Zero THEN given ELSE own

\* the text handling of _run_cmd (collect.py:777-786) on child.before, the
\* lines received before the prompt: everything up to and including the
\* first occurrence of the command and the line ends after it is removed,
\* then the trailing line ends, then the carriage returns
RECURSIVE DropEmptyHead(_)
DropEmptyHead(text) ==
    IF text # <<>> /\ Head(text) = "" THEN DropEmptyHead(Tail(text)) ELSE text

RECURSIVE DropEmptyTail(_)
DropEmptyTail(text) ==
    IF text # <<>> /\ text[Len(text)] = ""
    THEN DropEmptyTail(SubSeq(text, 1, Len(text) - 1))
    ELSE text

\* rm_cmd = re.compile(r'^.*?%s\n*' % cmd, re.DOTALL) (collect.py:783,
\* 1124): the command is put in the pattern as it is, so it is read as a
\* regular expression.  "ls" finds the line "ls"; "ls *.txt" (ls, any
\* number of spaces, any character, txt) finds the line "ls.txt" and does
\* not find the line "ls *.txt".
rm_cmd_finds(cmd, line) ==
    <<cmd, line>> \in {<<"ls", "ls">>, <<"pwd", "pwd">>, <<"ls *.txt", "ls.txt">>}

RmCmd(text, cmd) ==
    IF \E i \in 1..Len(text) : rm_cmd_finds(cmd, text[i])
    THEN LET i == CHOOSE i \in 1..Len(text) :
                     /\ rm_cmd_finds(cmd, text[i])
                     /\ \A j \in 1..(i - 1) : ~rm_cmd_finds(cmd, text[j])
         IN DropEmptyHead(SubSeq(text, i + 1, Len(text)))
    ELSE text

NoCR == [l \in {"data\r", "late\r"} |-> IF l = "data\r" THEN "data" ELSE "late"]

run_cmd_text(received, cmd) ==
    LET out == DropEmptyTail(RmCmd(received, cmd))
    IN [i \in 1..Len(out) |-> IF out[i] \in DOMAIN NoCR THEN NoCR[out[i]] ELSE out[i]]

\* ------------------------------------------------------------ inputs
\* login_steps / prompt given to Expect(...); () stands for None
LoginC1 ==
    [login_steps |-> << <<Step("Login: ", StrNl("bob"))>>,
                        <<Step("Password: ", StrNl("secret"))>> >>,
     prompt |-> "$ "]
LoginOwnSentinels ==
    [login_steps |-> << <<Step("Password: ", StrNl("pw")),
                          Step("denied", IntResp(KILL)),
                          Step("motd", IntResp(BREAK)),
                          Step("locked", IntResp(RESPONSE))>> >>,
     prompt |-> "$ "]
LoginAheadSentinels ==
    [login_steps |-> << <<Step("Password: ", StrNl("pw"))>>,
                        <<Step("denied", IntResp(KILL)),
                          Step("motd", IntResp(BREAK)),
                          Step("locked", IntResp(RESPONSE))>> >>,
     prompt |-> "$ "]
LoginPromptOnly == [login_steps |-> <<>>, prompt |-> "^# "]
LoginNothing == [login_steps |-> <<>>, prompt |-> PyNone]
LoginPassBreak ==
    [login_steps |-> << <<Step(PyNone, IntResp(BREAK))>> >>, prompt |-> "$ "]
LoginPassSend ==
    [login_steps |-> << <<Step(PyNone, Str("{user}"))>>,
                        <<Step("Password: ", StrNl("pw"))>> >>,
     prompt |-> "$ "]

LoginThenEnd ==
    [login_steps |-> << <<Step("Password: ", StrNl("pw"))>>,
                        <<Step(PyNone, IntResp(BREAK))>> >>,
     prompt |-> PyNone]

Logins == {LoginC1, LoginOwnSentinels, LoginAheadSentinels, LoginPromptOnly,
           LoginNothing, LoginPassBreak, LoginPassSend, LoginThenEnd}

LogoutNone == [logout_cmd |-> PyNone, logout_steps |-> <<>>]
LogoutCmd == [logout_cmd |-> "exit", logout_steps |-> <<>>]
LogoutSteps ==
    [logout_cmd |-> "exit",
     logout_steps |-> << <<Step("logout\\?", StrNl("y"))>>,
                         <<Step("bye", NoResp)>> >>]

Logouts == {LogoutNone, LogoutCmd, LogoutSteps}

Context == [p \in {"{user}"} |-> "www"]

\* commands, and what the remote side may print before the prompt
Cmds == {"ls", "ls *.txt"}
Received(cmd) == {<<>>, <<cmd>>, <<cmd, "data\r">>}

\* what a command whose read was cut by the alarm prints afterwards, before
\* its own prompt: its echo and its output.  The line "late" stands for
\* output written after the deadline of the command that produced it.
LateOutput(cmd) == <<cmd, "late\r">>

\* what a read of _run_cmd may find before the first prompt of the stream
\* (collect.py:772, 777): the output of the command just sent, or, when the
\* read of an earlier command was cut and nothing emptied the stream, the
\* late output of that command
ReceivedOnStream(late, cmd) ==
    IF late = "" THEN Received(cmd) ELSE Received(cmd) \cup {LateOutput(late)}

\* the command whose output and prompt are still to come once the read of
\* cmd has ended: none when the read found the output of cmd
StillToCome(late, cmd, timed_out, rcv) ==
    IF timed_out THEN (IF late = "" THEN cmd ELSE late)
    ELSE IF late # "" /\ rcv = LateOutput(late) THEN cmd
    ELSE ""
CmdLists == {<<>>, << <<"a", "ls">>, <<"b", "pwd">> >>, << <<"", "ls">> >>}

\* ------------------------------------------------------------ state
VARIABLES
    conf,          \* the class built (Expect or Telnet) and the arguments
                   \* of its constructor, kept as attributes
    is_connected,  \* self.is_connected
    in_with,       \* self.in_with
    pc,            \* "new": __init__ not yet run; "init_read", "run_read",
                   \* "mrun_read", "close_read": blocked in a transport
                   \* read of __init__ / run / mrun / close; "idle": the
                   \* caller holds the session; "init_raised": __init__
                   \* raised, there is no session; "login_read",
                   \* "passwd_read", "prompt_read", "telnet_run_read",
                   \* "telnet_mrun_read": blocked in a tn.expect of
                   \* Telnet.__init__ / run / mrun
    eng,           \* the step engine in progress (or the last one)
    call,          \* the call in progress (or the last one)
    sent,          \* what the current call wrote to the transport
    stream,        \* what the transport reads of the current call met:
                   \* the pattern found, or how the read ended
    kills,         \* child.kill(0) calls made by the current call
    before,        \* child.before
    alarm,         \* a SIGALRM of Timeout is pending
    ret,           \* how the last call ended
    ncalls,        \* calls made by the caller
    tn_open,       \* Telnet: the connection self.tn is open
    sh,            \* the call of mrunsh / mrunshex in progress (or the
                   \* last one), with the alarm and the SIGALRM handler
                   \* of the process
    fr,            \* the call of _filter_result made (or none yet)
    lk,            \* a Lockfile object, the lock of its file and the clock
    procs          \* the processes that use Lockfile on one filename, the
                   \* directory entry of the .lock file and the locks of its
                   \* inodes

\* the state of a session object
session_vars == <<conf, is_connected, in_with, pc, eng, call, sent, stream,
                  kills, before, alarm, ret, ncalls, tn_open>>

\* the state of the module-level functions, which no session touches
function_vars == <<sh, fr, lk, procs>>

vars == <<conf, is_connected, in_with, pc, eng, call, sent, stream, kills,
          before, alarm, ret, ncalls, tn_open, sh, fr, lk, procs>>

\* no call made yet
NotCalled == [pc |-> "none"]

\* signal.alarm(0): no alarm is pending
NoAlarm == -1

\* no Lockfile object is built
NoLockfile == [pc |-> "none"]

\* no process uses Lockfile
NoProcesses == [pc |-> "none"]

\* late: the command sent by the call whose output the remote side has not
\* written yet ("" when there is none)
NoCall ==
    [op |-> "none", cmd |-> "", cmds |-> <<>>, i |-> 0, dct |-> <<>>,
     out |-> <<>>, auto_close |-> FALSE, unexpected_pattern |-> Zero,
     late |-> ""]
NoRet == [op |-> "none", how |-> "none", exc |-> "", val |-> <<>>, dct |-> <<>>]
Return(op, val, dct) ==
    [op |-> op, how |-> "return", exc |-> "", val |-> val, dct |-> dct]
Raise(op, exc) ==
    [op |-> op, how |-> "raise", exc |-> exc, val |-> <<>>, dct |-> <<>>]

\* mrunsh / mrunshex not called yet.  now: seconds since the call;
\* started: when the command in progress was started; alarm_at: when the
\* SIGALRM of the process is due; handler: the error_message of the
\* Timeout whose handle_timeout is installed; scopes: the Timeout blocks
\* entered and not left; expired: the keys of the commands that reached
\* their timeout
NoBatch ==
    [pc |-> "none", op |-> "none", cmds |-> <<>>, cmd_timeout |-> 30,
     total_timeout |-> 60, expected_pattern |-> "\\S",
     unexpected_pattern |-> PyNone, filter |-> PyNone,
     unexpected_stderr |-> TRUE, i |-> 0, dct |-> <<>>, ret |-> NoRet,
     now |-> 0, started |-> 0, alarm_at |-> NoAlarm, handler |-> "none",
     scopes |-> <<>>, expired |-> <<>>]

IdleEngine == [NewEngine(<<>>, <<>>, 0, BeforeNone, Context) EXCEPT !.st = "idle"]
EndedEngine(s, k, b) == [NewEngine(<<>>, s, k, b, Context) EXCEPT !.st = "ok"]

\* dct[k] = v on an insertion-ordered dict
DictSet(dct, k, v) ==
    IF \E i \in 1..Len(dct) : dct[i][1] = k
    THEN [i \in 1..Len(dct) |-> IF dct[i][1] = k THEN <<k, v>> ELSE dct[i]]
    ELSE Append(dct, <<k, v>>)

\* the sessions that are built: Expect(spawn, login_steps, prompt,
\* logout_cmd, logout_steps) and Telnet(host, user, password), with the
\* defaults of the other arguments (collect.py:628-631, 1013-1017)
ExpectConfs ==
    {[cls |-> "Expect", login_steps |-> l.login_steps, prompt |-> l.prompt,
      logout_cmd |-> o.logout_cmd, logout_steps |-> o.logout_steps,
      context |-> Context, expected_pattern |-> "\\S",
      unexpected_pattern |-> "<timeout>", filter |-> PyNone,
      host |-> "", user |-> "", password |-> PyNone] :
     l \in Logins, o \in Logouts}

TelnetConfs ==
    {[cls |-> "Telnet", login_steps |-> <<>>, prompt |-> PyNone,
      logout_cmd |-> PyNone, logout_steps |-> <<>>,
      context |-> Context, expected_pattern |-> "\\S",
      unexpected_pattern |-> "<timeout>", filter |-> PyNone,
      host |-> h, user |-> "www", password |-> pw] :
     h \in {"", "localhost"}, pw \in {PyNone, "secret"}}

\* __init__ of Expect and of Telnet up to the Timeout block
\* (collect.py:628-652, 1013-1048)
Init ==
    /\ conf \in ExpectConfs \cup TelnetConfs
    /\ is_connected = FALSE
    /\ in_with = FALSE
    /\ pc = "new"
    /\ eng = IdleEngine
    /\ call = NoCall
    /\ sent = <<>>
    /\ stream = <<>>
    /\ kills = 0
    /\ before = BeforeNone
    /\ alarm = FALSE
    /\ ret = NoRet
    /\ ncalls = 0
    /\ tn_open = FALSE
    /\ sh = NoBatch
    /\ fr = NotCalled
    /\ lk = NoLockfile
    /\ procs = NoProcesses

\* ------------------------------------------------------------ __init__
\* the steps followed at login (collect.py:660-661)
LoginSteps(c) ==
    c.login_steps \o (IF c.prompt # PyNone
                      THEN << <<Step(c.prompt, NoResp)>> >>
                      ELSE <<>>)

\* a variant of __init__ that sets is_connected whatever the login engine
\* did
InitOutcome_AlwaysConnected(e) == "connected"

\* what __init__ does with the outcome of the login engine
\* (collect.py:660-664): "connected", "ConnectionError", or the exception
\* of the engine passed on
InitOutcome(e) ==
    CASE e.st = "ok" -> "connected"
      [] e.st = "payload" -> "ConnectionError"
      [] OTHER -> e.st

\* __init__ from the engine's state on: blocked in a read, or ended.
\* Timeout.__exit__ cancels the alarm on every way out (tools.py:61-62).
InitFlow(e) ==
    /\ eng' = e
    /\ sent' = e.sent
    /\ kills' = e.kills
    /\ before' = e.before
    /\ IF e.st = "read"
       THEN /\ pc' = "init_read"
            /\ alarm' = TRUE
            /\ is_connected' = FALSE
            /\ ret' = NoRet
       ELSE /\ alarm' = FALSE
            /\ is_connected' = (InitOutcome(e) = "connected")
            /\ pc' = IF InitOutcome(e) = "connected" THEN "idle" ELSE "init_raised"
            /\ ret' = IF InitOutcome(e) = "connected"
                      THEN Return("init", <<>>, <<>>)
                      ELSE Raise("init", InitOutcome(e))

\* Expect.__init__, the Timeout block (collect.py:653-664)
ExpectInit ==
    /\ conf.cls = "Expect"
    /\ UNCHANGED function_vars
    /\ pc = "new"
    /\ IF LoginSteps(conf) = <<>>
       THEN InitFlow(EndedEngine(<<>>, 0, BeforeNone))
       ELSE InitFlow(expect_steps(LoginSteps(conf), <<>>, 0, BeforeNone,
                                  conf.context))
    /\ UNCHANGED <<conf, in_with, call, stream, ncalls, tn_open>>

\* a transport read of the login engine returns
InitRead ==
    /\ pc = "init_read"
    /\ UNCHANGED function_vars
    /\ \E o \in ReadOutcomes(Patterns(eng.steps, eng.step), alarm) :
           /\ InitFlow(EngineRead(eng, o))
           /\ stream' = Append(stream, Event(o))
    /\ UNCHANGED <<conf, in_with, call, ncalls, tn_open>>

\* ------------------------------------------------------------ close
\* Expect.close up to its first transport read (collect.py:747-755):
\* nothing inside a with-block; otherwise is_connected is dropped, the
\* logout_cmd sent and the logout steps started
CloseBody(conn, s, k, b) ==
    LET s1 == IF conf.logout_cmd # PyNone
              THEN Append(s, Wire(conf.logout_cmd, TRUE))
              ELSE s
    IN [is_connected |-> FALSE,
        e |-> IF conf.logout_steps # <<>>
              THEN expect_steps(conf.logout_steps, s1, k, b, conf.context)
              ELSE EndedEngine(s1, k, b),
        entered |-> TRUE]

\* a variant of close that marks the session connected when it keeps it
\* open
NoClose_MarksConnected(conn, s, k, b) ==
    [is_connected |-> TRUE, e |-> EndedEngine(s, k, b), entered |-> FALSE]

\* close not called (auto_close false), or called inside a with-block
NoClose(conn, s, k, b) ==
    [is_connected |-> conn, e |-> EndedEngine(s, k, b), entered |-> FALSE]

\* a variant of close without the test of in_with
close_IgnoresWith(inw, conn, s, k, b) == CloseBody(conn, s, k, b)

\* Expect.close (collect.py:747-755)
close(inw, conn, s, k, b) ==
    IF inw THEN NoClose(conn, s, k, b) ELSE CloseBody(conn, s, k, b)

\* the end of the call cl once close has returned: run filters its output
\* (collect.py:863-871), mrun returns its dict (collect.py:966)
Finish(cl) ==
    IF cl.op = "run"
    THEN LET f == filter_result(cl.out, "", cl.cmd,
                                Effective(Zero, conf.expected_pattern),
                                Effective(cl.unexpected_pattern,
                                          conf.unexpected_pattern),
                                Effective(Zero, conf.filter))
         IN IF f.ok THEN Return("run", f.val, <<>>)
            ELSE Raise("run", "UnexpectedResultError")
    ELSE Return(cl.op, <<>>, cl.dct)

\* whether close goes on to child.kill(0) once _expect_steps is over
\* (collect.py:755-759): it does when the engine returned, whatever it
\* returned; an exception of the engine leaves close
CloseReachesKill(e) == e.st \in {"ok", "payload"}

\* close from the engine's state on, then the rest of the call cl
CloseFlow(c, cl) ==
    /\ is_connected' = c.is_connected
    /\ eng' = c.e
    /\ sent' = c.e.sent
    /\ before' = c.e.before
    /\ call' = cl
    /\ IF c.e.st = "read"
       THEN /\ pc' = "close_read"
            /\ kills' = c.e.kills
            /\ ret' = NoRet
       ELSE /\ pc' = "idle"
            /\ IF CloseReachesKill(c.e)
               THEN /\ kills' = c.e.kills + (IF c.entered THEN 1 ELSE 0)
                    /\ ret' = Finish(cl)
               ELSE /\ kills' = c.e.kills
                    /\ ret' = Raise(cl.op, c.e.st)

\* a transport read of the logout engine returns
CloseRead ==
    /\ pc = "close_read"
    /\ UNCHANGED function_vars
    /\ \E o \in ReadOutcomes(Patterns(eng.steps, eng.step), alarm) :
           /\ CloseFlow([is_connected |-> is_connected, e |-> EngineRead(eng, o),
                         entered |-> TRUE], call)
           /\ stream' = Append(stream, Event(o))
    /\ UNCHANGED <<conf, in_with, alarm, ncalls, tn_open>>

\* ------------------------------------------------------------ run, mrun
\* a variant of run and mrun without the check of is_connected
NotConnectedCheck_Never(conn) == FALSE

\* "if not self.is_connected: raise NotConnected" (collect.py:854-855,
\* 936-937)
NotConnectedCheck(conn) == ~conn

\* the call raises NotConnected at once
RaiseNotConnected(op) ==
    /\ ret' = Raise(op, "NotConnected")
    /\ sent' = <<>>
    /\ stream' = <<>>
    /\ kills' = 0
    /\ eng' = IdleEngine
    /\ UNCHANGED <<conf, is_connected, in_with, pc, before, alarm, tn_open>>

\* the call raises exc out of a transport read: Timeout.__exit__ has
\* cancelled the alarm, close is not called
RaiseFromRead(op, exc, b) ==
    /\ ret' = Raise(op, exc)
    /\ pc' = "idle"
    /\ before' = b
    /\ UNCHANGED <<is_connected, eng, call, sent, kills>>

\* a variant of run and mrun that never calls close
MaybeClose_Never(auto_close, inw, conn, s, k, b) == NoClose(conn, s, k, b)

\* "if auto_close: self.close()" (collect.py:861-862, 964-965)
MaybeClose(auto_close, inw, conn, s, k, b) ==
    IF auto_close THEN close(inw, conn, s, k, b) ELSE NoClose(conn, s, k, b)

\* _run_cmd: "if cmd: self.child.sendline(cmd)" (collect.py:764-767)
SendCmd(s, cmd) == IF cmd # "" THEN Append(s, Wire(cmd, TRUE)) ELSE s

\* the prompt handed to child.expect by _run_cmd (collect.py:769-772)
PromptPatterns == <<expect_pattern_rewrite(conf.prompt)>>

\* child.before after a read: set by pexpect unless the alarm cut the read
BeforeAfter(r) == IF r.k = "TimeoutError" THEN before ELSE BeforeBytes

\* Expect.run up to the read of _run_cmd (collect.py:854-858, 763-772)
Run(cmd, auto_close, unexpected_pattern) ==
    /\ conf.cls = "Expect"
    /\ UNCHANGED function_vars
    /\ pc = "idle"
    /\ ncalls < MaxCalls
    /\ ncalls' = ncalls + 1
    /\ call' = [NoCall EXCEPT !.op = "run", !.cmd = cmd,
                              !.auto_close = auto_close,
                              !.unexpected_pattern = unexpected_pattern]
    /\ IF NotConnectedCheck(is_connected)
       THEN RaiseNotConnected("run")
       ELSE /\ alarm' = TRUE
            /\ sent' = SendCmd(<<>>, cmd)
            /\ stream' = <<>>
            /\ kills' = 0
            /\ eng' = IdleEngine
            /\ pc' = "run_read"
            /\ ret' = NoRet
            /\ UNCHANGED <<conf, is_connected, in_with, before, tn_open>>

\* the read of _run_cmd returns; the rest of run (collect.py:772-786,
\* 859-871)
RunRead ==
    /\ pc = "run_read"
    /\ UNCHANGED function_vars
    /\ alarm' = FALSE
    /\ UNCHANGED <<conf, in_with, ncalls, tn_open>>
    /\ \E o \in ReadOutcomes(PromptPatterns, alarm), rcv \in Received(call.cmd) :
         LET r == child_expect(PromptPatterns, o)
         IN /\ stream' = Append(stream, Event(o))
            /\ CASE r.k = "found" ->
                   CloseFlow(MaybeClose(call.auto_close, in_with, is_connected,
                                        sent, kills, BeforeAfter(r)),
                             [call EXCEPT !.out = run_cmd_text(rcv, call.cmd)])
              [] r.k = "TimeoutError" ->
                   CloseFlow(MaybeClose(call.auto_close, in_with, is_connected,
                                        sent, kills, BeforeAfter(r)),
                             [call EXCEPT !.out = TimeoutText])
              [] r.k = "pexpect.EOF" ->
                   RaiseFromRead("run", "CollectError: No more data (EOF)",
                                 BeforeAfter(r))
              [] OTHER -> RaiseFromRead("run", r.k, BeforeAfter(r))

\* mrun at the head of its for loop (collect.py:941-944, 964-966): the
\* next command is sent under a new Timeout, or the loop is over
MrunNext_SendsAhead(cl, s, k, b) ==
    IF cl.i <= Len(cl.cmds)
    THEN /\ alarm' = TRUE
         /\ sent' = IF cl.i < Len(cl.cmds)
                    THEN SendCmd(SendCmd(s, cl.cmds[cl.i][2]), cl.cmds[cl.i + 1][2])
                    ELSE SendCmd(s, cl.cmds[cl.i][2])
         /\ kills' = k
         /\ before' = b
         /\ eng' = IdleEngine
         /\ pc' = "mrun_read"
         /\ call' = cl
         /\ ret' = NoRet
         /\ UNCHANGED is_connected
    ELSE /\ alarm' = FALSE
         /\ CloseFlow(MaybeClose(cl.auto_close, in_with, is_connected, s, k, b),
                      cl)
MrunNext(cl, s, k, b) ==
    IF cl.i <= Len(cl.cmds)
    THEN /\ alarm' = TRUE
         /\ sent' = SendCmd(s, cl.cmds[cl.i][2])
         /\ kills' = k
         /\ before' = b
         /\ eng' = IdleEngine
         /\ pc' = "mrun_read"
         /\ call' = cl
         /\ ret' = NoRet
         /\ UNCHANGED is_connected
    ELSE /\ alarm' = FALSE
         /\ CloseFlow(MaybeClose(cl.auto_close, in_with, is_connected, s, k, b),
                      cl)

\* Expect.mrun up to its first read (collect.py:936-944)
Mrun(cmds, auto_close, unexpected_pattern) ==
    /\ conf.cls = "Expect"
    /\ UNCHANGED function_vars
    /\ pc = "idle"
    /\ ncalls < MaxCalls
    /\ ncalls' = ncalls + 1
    /\ IF NotConnectedCheck(is_connected)
       THEN /\ RaiseNotConnected("mrun")
            /\ call' = [NoCall EXCEPT !.op = "mrun", !.cmds = cmds,
                                      !.auto_close = auto_close,
                                      !.unexpected_pattern = unexpected_pattern]
       ELSE /\ MrunNext([NoCall EXCEPT !.op = "mrun", !.cmds = cmds, !.i = 1,
                                        !.auto_close = auto_close,
                                        !.unexpected_pattern = unexpected_pattern],
                        <<>>, 0, before)
            /\ stream' = <<>>
            /\ UNCHANGED <<conf, in_with, tn_open>>

\* the key is kept when "if k:" holds (collect.py:945, 956)
KeepKey(k) == k # ""

\* a read of _run_cmd inside mrun returns; the rest of the iteration and
\* the next one up to its read (collect.py:941-966)
MrunRead ==
    /\ pc = "mrun_read"
    /\ UNCHANGED function_vars
    /\ UNCHANGED <<conf, in_with, ncalls, tn_open>>
    /\ \E o \in ReadOutcomes(PromptPatterns, alarm),
          rcv \in ReceivedOnStream(call.late, call.cmds[call.i][2]) :
         LET k == call.cmds[call.i][1]
             cmd == call.cmds[call.i][2]
             r == child_expect(PromptPatterns, o)
             output == IF r.k = "found" THEN run_cmd_text(rcv, cmd)
                       ELSE TimeoutText
             f == filter_result(output, k, cmd,
                                Effective(Zero, conf.expected_pattern),
                                Effective(call.unexpected_pattern,
                                          conf.unexpected_pattern),
                                Effective(Zero, conf.filter))
         IN /\ stream' = Append(stream, Event(o))
            /\ CASE r.k \in {"found", "TimeoutError"} ->
                   IF KeepKey(k) /\ ~f.ok
                   THEN /\ RaiseFromRead("mrun", "UnexpectedResultError",
                                         BeforeAfter(r))
                        /\ alarm' = FALSE
                   ELSE MrunNext([call EXCEPT
                                     !.i = @ + 1,
                                     !.dct = IF KeepKey(k)
                                             THEN DictSet(@, k, f.val)
                                             ELSE @,
                                     !.late = StillToCome(
                                                  @, cmd,
                                                  r.k = "TimeoutError", rcv)],
                                 sent, kills, BeforeAfter(r))
              [] r.k = "pexpect.EOF" ->
                   /\ RaiseFromRead("mrun", "CollectError: No more data (EOF)",
                                    BeforeAfter(r))
                   /\ alarm' = FALSE
              [] OTHER ->
                   /\ RaiseFromRead("mrun", r.k, BeforeAfter(r))
                   /\ alarm' = FALSE

\* ------------------------------------------------------------ with, close
\* __enter__ of Expect and of Telnet (collect.py:739-741, 1096-1098)
Enter ==
    /\ pc = "idle"
    /\ UNCHANGED function_vars
    /\ ncalls < MaxCalls
    /\ ncalls' = ncalls + 1
    /\ in_with' = TRUE
    /\ call' = [NoCall EXCEPT !.op = "enter"]
    /\ ret' = Return("enter", <<>>, <<>>)
    /\ sent' = <<>>
    /\ stream' = <<>>
    /\ kills' = 0
    /\ eng' = IdleEngine
    /\ UNCHANGED <<conf, is_connected, pc, before, alarm, tn_open>>

\* Expect.__exit__ (collect.py:743-745), called when the with-block entered
\* by __enter__ is left, normally or by an exception
Exit ==
    /\ conf.cls = "Expect"
    /\ UNCHANGED function_vars
    /\ pc = "idle"
    /\ in_with
    /\ ncalls < MaxCalls
    /\ ncalls' = ncalls + 1
    /\ in_with' = FALSE
    /\ stream' = <<>>
    /\ CloseFlow(close(FALSE, is_connected, <<>>, 0, before),
                 [NoCall EXCEPT !.op = "exit"])
    /\ UNCHANGED <<conf, alarm, tn_open>>

\* Expect.close called by the caller (collect.py:747-761)
Close ==
    /\ conf.cls = "Expect"
    /\ UNCHANGED function_vars
    /\ pc = "idle"
    /\ ncalls < MaxCalls
    /\ ncalls' = ncalls + 1
    /\ stream' = <<>>
    /\ CloseFlow(close(in_with, is_connected, <<>>, 0, before),
                 [NoCall EXCEPT !.op = "close"])
    /\ UNCHANGED <<conf, in_with, alarm, tn_open>>

\* ------------------------------------------------------------ Telnet
\* the default patterns of Telnet, as lists (collect.py:1024-1034)
login_pattern == <<"login\\s*:">>
passwd_pattern == <<"Password\\s*:">>
prompt_pattern == <<"[\\r\\n][^\\s]*\\s?[\\$#>:]+\\s">>
autherr_pattern ==
    <<"bad password|login incorrect|login failed|authentication error">>

\* How a read of the telnet connection, tn.expect(list) without a timeout,
\* may end:
\*   [k |-> "text", pat |-> p]  text arrives in which pattern p is found
\*   [k |-> "rest"]             the connection is closed by the remote side
\*                              after text in which no pattern is found
\*   [k |-> "eof"]              the connection is closed and nothing has
\*                              arrived: EOFError
\*   [k |-> "alarm"]            the SIGALRM of the enclosing Timeout fires
TnReadOutcomes(patterns, alarm_armed) ==
    {[k |-> "text", pat |-> patterns[i]] : i \in 1..Len(patterns)}
    \cup {[k |-> "rest", pat |-> ""], [k |-> "eof", pat |-> ""]}
    \cup (IF alarm_armed THEN {[k |-> "alarm", pat |-> ""]} ELSE {})

\* tn.expect: the index of the pattern found, -1 when none is
tn_expect(patterns, o) ==
    CASE o.k = "text" -> [k |-> "returned", pat_id |-> FirstIndex(patterns, o.pat) - 1]
      [] o.k = "rest" -> [k |-> "returned", pat_id |-> -1]
      [] o.k = "eof" -> [k |-> "EOFError", pat_id |-> -1]
      [] OTHER -> [k |-> "TimeoutError", pat_id |-> -1]

\* Telnet.__init__ raises exc; Timeout.__exit__ cancels the alarm
TelnetInitRaise(exc) ==
    /\ pc' = "init_raised"
    /\ ret' = Raise("init", exc)
    /\ alarm' = FALSE
    /\ UNCHANGED <<is_connected, sent>>

\* Telnet.__init__ up to its first read (collect.py:1043-1060): the checks
\* of host and user, then the connection, which the remote side accepts
\* or not
TelnetInit ==
    /\ conf.cls = "Telnet"
    /\ UNCHANGED function_vars
    /\ pc = "new"
    /\ IF conf.host = "" \/ conf.user = ""
       THEN TelnetInitRaise("ConnectionError") /\ UNCHANGED tn_open
       ELSE \E accepted \in BOOLEAN :
              IF accepted
              THEN /\ tn_open' = TRUE
                   /\ alarm' = TRUE
                   /\ pc' = "login_read"
                   /\ UNCHANGED <<is_connected, sent, ret>>
              ELSE TelnetInitRaise("ConnectionError") /\ UNCHANGED tn_open
    /\ UNCHANGED <<conf, in_with, eng, call, stream, kills, before, ncalls>>

\* a read of __init__ that ends in an exception
TelnetInitReadRaises(r) ==
    /\ r.k # "returned"
    /\ TelnetInitRaise(r.k)

\* tn.expect(login_pattern) returns, its result is not looked at; the user
\* is written (collect.py:1060-1066)
TelnetLoginRead ==
    /\ pc = "login_read"
    /\ UNCHANGED function_vars
    /\ \E o \in TnReadOutcomes(login_pattern, alarm) :
         LET r == tn_expect(login_pattern, o)
         IN /\ stream' = Append(stream, Event(o))
            /\ \/ TelnetInitReadRaises(r)
               \/ /\ r.k = "returned"
                  /\ sent' = Append(sent, Wire(conf.user, TRUE))
                  /\ pc' = IF conf.password # PyNone THEN "passwd_read"
                           ELSE "prompt_read"
                  /\ UNCHANGED <<is_connected, ret, alarm>>
    /\ UNCHANGED <<conf, in_with, eng, call, kills, before, ncalls, tn_open>>

\* tn.expect(passwd_pattern) returns, its result is not looked at; the
\* password is written (collect.py:1066-1075)
TelnetPasswdRead ==
    /\ pc = "passwd_read"
    /\ UNCHANGED function_vars
    /\ \E o \in TnReadOutcomes(passwd_pattern, alarm) :
         LET r == tn_expect(passwd_pattern, o)
         IN /\ stream' = Append(stream, Event(o))
            /\ \/ TelnetInitReadRaises(r)
               \/ /\ r.k = "returned"
                  /\ sent' = Append(sent, Wire(conf.password, TRUE))
                  /\ pc' = "prompt_read"
                  /\ UNCHANGED <<is_connected, ret, alarm>>
    /\ UNCHANGED <<conf, in_with, eng, call, kills, before, ncalls, tn_open>>

\* what __init__ does with the pat_id of its last read (collect.py:1079-1084)
TelnetInitOutcome(pat_id) ==
    IF pat_id < 0 \/ pat_id >= Len(prompt_pattern) THEN "ConnectionError"
    ELSE "connected"

\* tn.expect(prompt_pattern + autherr_pattern) returns (collect.py:1076-1084)
TelnetPromptRead ==
    /\ pc = "prompt_read"
    /\ UNCHANGED function_vars
    /\ \E o \in TnReadOutcomes(prompt_pattern \o autherr_pattern, alarm) :
         LET r == tn_expect(prompt_pattern \o autherr_pattern, o)
         IN /\ stream' = Append(stream, Event(o))
            /\ \/ TelnetInitReadRaises(r)
               \/ /\ r.k = "returned"
                  /\ TelnetInitOutcome(r.pat_id) # "connected"
                  /\ TelnetInitRaise(TelnetInitOutcome(r.pat_id))
               \/ /\ r.k = "returned"
                  /\ TelnetInitOutcome(r.pat_id) = "connected"
                  /\ is_connected' = TRUE
                  /\ alarm' = FALSE
                  /\ pc' = "idle"
                  /\ ret' = Return("init", <<>>, <<>>)
                  /\ UNCHANGED sent
    /\ UNCHANGED <<conf, in_with, eng, call, kills, before, ncalls, tn_open>>

\* Telnet.close (collect.py:1104-1107)
telnet_close(inw, conn, open) ==
    IF inw THEN [is_connected |-> conn, tn_open |-> open]
    ELSE [is_connected |-> FALSE, tn_open |-> FALSE]

\* "if auto_close: self.close()" (collect.py:1202-1203, 1294-1295)
TelnetMaybeClose(auto_close, inw, conn, open) ==
    IF auto_close THEN telnet_close(inw, conn, open)
    ELSE [is_connected |-> conn, tn_open |-> open]

\* the text handling of Telnet._run_cmd (collect.py:1122-1128) on the
\* buffer read, the prompt included: the carriage returns are removed,
\* then everything up to the command and the line ends after it, then the
\* last line
telnet_run_cmd_text(buffer, cmd) ==
    LET out == RmCmd([i \in 1..Len(buffer) |->
                         IF buffer[i] \in DOMAIN NoCR THEN NoCR[buffer[i]]
                         ELSE buffer[i]], cmd)
    IN IF out = <<>> THEN <<>> ELSE SubSeq(out, 1, Len(out) - 1)

\* the buffer tn.expect returns: what was received, up to and including
\* the prompt when it is found
TelnetBuffer(rcv, r) == IF r.pat_id >= 0 THEN rcv \o <<"$ ">> ELSE rcv

\* the call raises exc out of a read of the telnet connection
TelnetRaiseFromRead(op, exc) ==
    /\ ret' = Raise(op, exc)
    /\ pc' = "idle"
    /\ alarm' = FALSE
    /\ UNCHANGED <<is_connected, call, sent, tn_open>>

\* Telnet.run up to the read of _run_cmd (collect.py:1195-1199, 1111-1121)
TelnetRun(cmd, auto_close, unexpected_pattern) ==
    /\ conf.cls = "Telnet"
    /\ UNCHANGED function_vars
    /\ pc = "idle"
    /\ ncalls < MaxCalls
    /\ ncalls' = ncalls + 1
    /\ call' = [NoCall EXCEPT !.op = "run", !.cmd = cmd,
                              !.auto_close = auto_close,
                              !.unexpected_pattern = unexpected_pattern]
    /\ IF NotConnectedCheck(is_connected)
       THEN RaiseNotConnected("run")
       ELSE /\ alarm' = TRUE
            /\ sent' = <<Wire(cmd, TRUE)>>
            /\ stream' = <<>>
            /\ pc' = "telnet_run_read"
            /\ ret' = NoRet
            /\ UNCHANGED <<conf, is_connected, in_with, eng, kills, before,
                           tn_open>>

\* the read of Telnet._run_cmd returns; the rest of run
\* (collect.py:1121-1131, 1200-1212)
TelnetRunRead ==
    /\ pc = "telnet_run_read"
    /\ UNCHANGED function_vars
    /\ UNCHANGED <<conf, in_with, eng, kills, before, ncalls>>
    /\ \E o \in TnReadOutcomes(prompt_pattern, alarm), rcv \in Received(call.cmd) :
         LET r == tn_expect(prompt_pattern, o)
             out == IF r.k = "returned"
                    THEN telnet_run_cmd_text(TelnetBuffer(rcv, r), call.cmd)
                    ELSE TimeoutText
             c == TelnetMaybeClose(call.auto_close, in_with, is_connected,
                                   tn_open)
         IN /\ stream' = Append(stream, Event(o))
            /\ IF r.k = "EOFError"
               THEN TelnetRaiseFromRead("run", "EOFError")
               ELSE /\ alarm' = FALSE
                    /\ is_connected' = c.is_connected
                    /\ tn_open' = c.tn_open
                    /\ call' = [call EXCEPT !.out = out]
                    /\ ret' = Finish([call EXCEPT !.out = out])
                    /\ pc' = "idle"
                    /\ UNCHANGED sent

\* Telnet.mrun at the head of its for loop (collect.py:1272-1275,
\* 1294-1296)
TelnetMrunNext(cl, s) ==
    IF cl.i <= Len(cl.cmds)
    THEN /\ alarm' = TRUE
         /\ sent' = Append(s, Wire(cl.cmds[cl.i][2], TRUE))
         /\ pc' = "telnet_mrun_read"
         /\ call' = cl
         /\ ret' = NoRet
         /\ UNCHANGED <<is_connected, tn_open>>
    ELSE LET c == TelnetMaybeClose(cl.auto_close, in_with, is_connected,
                                   tn_open)
         IN /\ alarm' = FALSE
            /\ sent' = s
            /\ is_connected' = c.is_connected
            /\ tn_open' = c.tn_open
            /\ call' = cl
            /\ ret' = Return("mrun", <<>>, cl.dct)
            /\ pc' = "idle"

\* Telnet.mrun up to its first read (collect.py:1267-1275)
TelnetMrun(cmds, auto_close, unexpected_pattern) ==
    /\ conf.cls = "Telnet"
    /\ UNCHANGED function_vars
    /\ pc = "idle"
    /\ ncalls < MaxCalls
    /\ ncalls' = ncalls + 1
    /\ IF NotConnectedCheck(is_connected)
       THEN /\ RaiseNotConnected("mrun")
            /\ call' = [NoCall EXCEPT !.op = "mrun", !.cmds = cmds,
                                      !.auto_close = auto_close,
                                      !.unexpected_pattern = unexpected_pattern]
       ELSE /\ TelnetMrunNext([NoCall EXCEPT !.op = "mrun", !.cmds = cmds,
                                              !.i = 1,
                                              !.auto_close = auto_close,
                                              !.unexpected_pattern =
                                                  unexpected_pattern],
                              <<>>)
            /\ stream' = <<>>
            /\ UNCHANGED <<conf, in_with, eng, kills, before>>

\* the key is kept when "if k:" holds, and always when the command timed
\* out (collect.py:1276, 1286-1287)
TelnetKeepKey(k, r) == r.k = "TimeoutError" \/ k # ""

\* a read of _run_cmd inside Telnet.mrun returns; the rest of the
\* iteration and the next one up to its read (collect.py:1272-1296)
TelnetMrunRead ==
    /\ pc = "telnet_mrun_read"
    /\ UNCHANGED function_vars
    /\ UNCHANGED <<conf, in_with, eng, kills, before, ncalls>>
    /\ \E o \in TnReadOutcomes(prompt_pattern, alarm),
          rcv \in Received(call.cmds[call.i][2]) :
         LET k == call.cmds[call.i][1]
             cmd == call.cmds[call.i][2]
             r == tn_expect(prompt_pattern, o)
             output == IF r.k = "returned"
                       THEN telnet_run_cmd_text(TelnetBuffer(rcv, r), cmd)
                       ELSE TimeoutText
             f == filter_result(output, k, cmd,
                                Effective(Zero, conf.expected_pattern),
                                Effective(call.unexpected_pattern,
                                          conf.unexpected_pattern),
                                Effective(Zero, conf.filter))
         IN /\ stream' = Append(stream, Event(o))
            /\ IF r.k = "EOFError"
               THEN TelnetRaiseFromRead("mrun", "EOFError")
               ELSE IF TelnetKeepKey(k, r) /\ ~f.ok
               THEN TelnetRaiseFromRead("mrun", "UnexpectedResultError")
               ELSE TelnetMrunNext([call EXCEPT
                                       !.i = @ + 1,
                                       !.dct = IF TelnetKeepKey(k, r)
                                               THEN DictSet(@, k, f.val)
                                               ELSE @],
                                   sent)

\* Telnet.__exit__ (collect.py:1100-1102)
TelnetExit ==
    /\ conf.cls = "Telnet"
    /\ UNCHANGED function_vars
    /\ pc = "idle"
    /\ in_with
    /\ ncalls < MaxCalls
    /\ ncalls' = ncalls + 1
    /\ in_with' = FALSE
    /\ is_connected' = telnet_close(FALSE, is_connected, tn_open).is_connected
    /\ tn_open' = telnet_close(FALSE, is_connected, tn_open).tn_open
    /\ call' = [NoCall EXCEPT !.op = "exit"]
    /\ ret' = Return("exit", <<>>, <<>>)
    /\ sent' = <<>>
    /\ stream' = <<>>
    /\ UNCHANGED <<conf, pc, eng, kills, before, alarm>>

\* Telnet.close called by the caller (collect.py:1104-1109)
TelnetClose ==
    /\ conf.cls = "Telnet"
    /\ UNCHANGED function_vars
    /\ pc = "idle"
    /\ ncalls < MaxCalls
    /\ ncalls' = ncalls + 1
    /\ is_connected' = telnet_close(in_with, is_connected, tn_open).is_connected
    /\ tn_open' = telnet_close(in_with, is_connected, tn_open).tn_open
    /\ call' = [NoCall EXCEPT !.op = "close"]
    /\ ret' = Return("close", <<>>, <<>>)
    /\ sent' = <<>>
    /\ stream' = <<>>
    /\ UNCHANGED <<conf, in_with, pc, eng, kills, before, alarm>>

\* ------------------------------------------------------------ behaviours
CallRun == \E cmd \in Cmds, ac \in BOOLEAN, up \in {Zero, PyNone} : Run(cmd, ac, up)
CallMrun ==
    \E cmds \in CmdLists, ac \in BOOLEAN, up \in {Zero, PyNone} : Mrun(cmds, ac, up)
CallTelnetRun ==
    \E cmd \in Cmds, ac \in BOOLEAN, up \in {Zero, PyNone} : TelnetRun(cmd, ac, up)
CallTelnetMrun ==
    \E cmds \in CmdLists, ac \in BOOLEAN, up \in {Zero, PyNone} :
        TelnetMrun(cmds, ac, up)

Next ==
    \/ ExpectInit
    \/ InitRead
    \/ CallRun
    \/ RunRead
    \/ CallMrun
    \/ MrunRead
    \/ Enter
    \/ Exit
    \/ Close
    \/ CloseRead
    \/ TelnetInit
    \/ TelnetLoginRead
    \/ TelnetPasswdRead
    \/ TelnetPromptRead
    \/ CallTelnetRun
    \/ TelnetRunRead
    \/ CallTelnetMrun
    \/ TelnetMrunRead
    \/ TelnetExit
    \/ TelnetClose

Spec == Init /\ [][Next]_vars

\* ------------------------------------------------- mrunsh / mrunshex
\* The local commands are run by module-level functions. One step of the
\* model is the call up to the first p.communicate(), one second spent
\* blocked in p.communicate(), or the end of p.communicate() with all the
\* code up to the next one or to the end of the call.  The process has one
\* alarm and one SIGALRM handler (signal.alarm, signal.signal); the clock
\* sh.now counts the seconds since the call.

\* the error_message of the two Timeout blocks (collect.py:324-326,
\* 413-415, 485-487)
CommandMessage == "Timeout for command"
BatchMessage == "Timeout for mrunsh commands"

\* Timeout.handle_timeout (tools.py:54-55): the exception raised
handle_timeout(error_message) ==
    IF error_message = CommandMessage
    THEN "TimeoutError: Timeout for command"
    ELSE "TimeoutError: Timeout for mrunsh commands"

\* Timeout.__enter__ (tools.py:57-59): signal.signal replaces the handler
\* of the process, signal.alarm replaces its alarm (alarm(0) sets none)
Timeout_enter(s, seconds, error_message) ==
    [s EXCEPT !.handler = error_message,
              !.alarm_at = IF seconds = 0 THEN NoAlarm ELSE s.now + seconds,
              !.scopes = Append(@, error_message)]

\* Timeout.__exit__ (tools.py:61-62): signal.alarm(0)
Timeout_exit_KeepsAlarm(s) ==
    [s EXCEPT !.scopes = SubSeq(@, 1, Len(@) - 1)]
Timeout_exit(s) ==
    [s EXCEPT !.alarm_at = NoAlarm,
              !.scopes = SubSeq(@, 1, Len(@) - 1)]

\* an exception leaves every with block it crosses
RECURSIVE Unwind(_)
Unwind(s) == IF s.scopes = <<>> THEN s ELSE Unwind(Timeout_exit(s))

\* neither runshex, runsh, mrunsh nor mrunshex catches anything: an
\* exception raised in runshex ends the whole call
ShRaise(s, exc) ==
    [Unwind(s) EXCEPT !.pc = "done", !.ret = Raise(s.op, exc)]

\* runshex up to p.communicate() (collect.py:322-350)
runshex_start(s) ==
    IF s.cmds[s.i][2] = ""
    THEN ShRaise(s, "InvalidCommandError")
    ELSE [Timeout_enter(s, s.cmd_timeout, CommandMessage)
             EXCEPT !.pc = "communicate", !.started = s.now]

\* "for k, cmd in cmds: ... return dct" (collect.py:420-422, 491-495)
mrunsh_loop(s) ==
    IF s.i > Len(s.cmds)
    THEN [Timeout_exit(s) EXCEPT !.pc = "done",
                                 !.ret = Return(s.op, <<>>, s.dct)]
    ELSE runshex_start(s)

\* the keys written for the command of key k: dct[k] in mrunsh, and
\* dct[k+'_stderr'], dct[k+'_rcode'] too in mrunshex
ShKey(k, suffix) == <<k, suffix>>

\* runshex from the end of p.communicate() on (collect.py:351-358), runsh
\* (collect.py:271-276) and the rest of the loop of mrunsh / mrunshex
runshex_end(s, stdout_msg, stderr_msg, returncode) ==
    LET k == s.cmds[s.i][1]
        f == filter_result(stdout_msg, k, s.cmds[s.i][2], s.expected_pattern,
                           s.unexpected_pattern, s.filter)
    IN IF s.unexpected_stderr /\ stderr_msg # <<>>
       THEN ShRaise(s, "UnexpectedResultError")
       ELSE IF ~f.ok
       THEN ShRaise(s, "UnexpectedResultError")
       ELSE LET t == Timeout_exit(s)
                d == DictSet(t.dct, ShKey(k, ""), f.val)
            IN mrunsh_loop(
                 [t EXCEPT !.i = @ + 1,
                           !.dct = IF s.op = "mrunshex"
                                   THEN DictSet(DictSet(d, ShKey(k, "_stderr"), stderr_msg),
                                                ShKey(k, "_rcode"), returncode)
                                   ELSE d])

\* the commands given, the timeouts in seconds, what a command prints
ShCmdLists ==
    { << <<"a", "echo 1">>, <<"b", "sleep 100">> >>,
      << <<"a", "echo 1">>, <<"b", "sleep 100">>, <<"c", "date">> >>,
      << <<"a", "echo 1">>, <<"b", "">> >> }
CmdTimeouts == {1, 2}
TotalTimeouts == {2, 3}
Stdouts == {<<>>, <<"1">>}
Stderrs == {<<>>, <<"sh: not found">>}

\* the SIGALRM of the process is due
AlarmDue(s) == s.alarm_at # NoAlarm /\ s.now >= s.alarm_at

\* the command has run for as long as "timeout <n>s" allows
KillDue(s) == s.now - s.started >= s.cmd_timeout

\* mrunsh / mrunshex up to the first p.communicate() (collect.py:413-422,
\* 485-495)
mrunsh(op, cmds, cmd_timeout, total_timeout, expected_pattern, unexpected_stderr) ==
    mrunsh_loop(Timeout_enter(
        [NoBatch EXCEPT !.op = op, !.cmds = cmds,
                        !.cmd_timeout = cmd_timeout,
                        !.total_timeout = total_timeout,
                        !.expected_pattern = expected_pattern,
                        !.unexpected_stderr = unexpected_stderr,
                        !.i = 1],
        total_timeout, BatchMessage))

\* mrunsh runs runsh, which runs runshex with unexpected_stderr=False
CallMrunsh ==
    /\ sh.pc = "none"
    /\ \E cmds \in ShCmdLists, ct \in CmdTimeouts, tt \in TotalTimeouts,
          ep \in {"\\S", PyNone} :
           sh' = mrunsh("mrunsh", cmds, ct, tt, ep, FALSE)
    /\ UNCHANGED session_vars
    /\ UNCHANGED <<fr, lk, procs>>

CallMrunshex ==
    /\ sh.pc = "none"
    /\ \E cmds \in ShCmdLists, ct \in CmdTimeouts, tt \in TotalTimeouts,
          ep \in {"\\S", PyNone}, us \in BOOLEAN :
           sh' = mrunsh("mrunshex", cmds, ct, tt, ep, us)
    /\ UNCHANGED session_vars
    /\ UNCHANGED <<fr, lk, procs>>

\* one second passes in p.communicate(): the command is still running,
\* no signal is due
Tick ==
    /\ sh.pc = "communicate"
    /\ ~KillDue(sh)
    /\ ~AlarmDue(sh)
    /\ sh' = [sh EXCEPT !.now = @ + 1]
    /\ UNCHANGED session_vars
    /\ UNCHANGED <<fr, lk, procs>>

\* the command ends by itself and p.communicate() returns
CommandEnds ==
    /\ sh.pc = "communicate"
    /\ \E stdout_msg \in Stdouts, stderr_msg \in Stderrs :
           sh' = runshex_end(sh, stdout_msg, stderr_msg, 0)
    /\ UNCHANGED session_vars
    /\ UNCHANGED <<fr, lk, procs>>

\* "timeout <n>s" ends the command (exit status 124) and p.communicate()
\* returns what the command had printed
CommandKilled ==
    /\ sh.pc = "communicate"
    /\ KillDue(sh)
    /\ \E stdout_msg \in Stdouts, stderr_msg \in Stderrs :
           sh' = runshex_end([sh EXCEPT !.expired = Append(@, sh.cmds[sh.i][1])],
                             stdout_msg, stderr_msg, 124)
    /\ UNCHANGED session_vars
    /\ UNCHANGED <<fr, lk, procs>>

\* SIGALRM is delivered in p.communicate(): the handler installed raises
Sigalrm ==
    /\ sh.pc = "communicate"
    /\ AlarmDue(sh)
    /\ sh' = ShRaise([sh EXCEPT !.expired = Append(@, sh.cmds[sh.i][1])],
                     handle_timeout(sh.handler))
    /\ UNCHANGED session_vars
    /\ UNCHANGED <<fr, lk, procs>>

\* no session object is built
NoSession ==
    /\ conf = PyNone
    /\ is_connected = FALSE
    /\ in_with = FALSE
    /\ pc = "new"
    /\ eng = IdleEngine
    /\ call = NoCall
    /\ sent = <<>>
    /\ stream = <<>>
    /\ kills = 0
    /\ before = BeforeNone
    /\ alarm = FALSE
    /\ ret = NoRet
    /\ ncalls = 0
    /\ tn_open = FALSE

InitSh ==
    /\ NoSession
    /\ sh = NoBatch
    /\ fr = NotCalled
    /\ lk = NoLockfile
    /\ procs = NoProcesses

NextSh ==
    \/ CallMrunsh
    \/ CallMrunshex
    \/ Tick
    \/ CommandEnds
    \/ CommandKilled
    \/ Sigalrm

SpecSh == InitSh /\ [][NextSh]_vars

\* ------------------------------------------------------ _filter_result
\* the diagnostic of _filter_result for each failure (collect.py:167-171,
\* 178-183)
help_str(why) ==
    CASE why = "unexpected" -> "-> found the pattern"
      [] why = "empty" -> "-> empty result"
      [] OTHER -> "-> cannot find the pattern"

\* _raise_unexpected_result (collect.py:138-153): the error raised; an
\* empty result is shown as '<empty result>'
raise_unexpected_result(result, key, cmd, help) ==
    [how |-> "raise", exc |-> "UnexpectedResultError", key |-> key,
     cmd |-> cmd, help_str |-> help,
     result |-> IF result = <<>> THEN <<"<empty result>">> ELSE result]

\* the arguments _filter_result is called with
FilterTexts ==
    {<<>>, <<"">>, <<" ">>, <<"data">>, <<"", "data">>, <<"ERROR: disk full">>,
     <<"<timeout>">>}
FilterArgs ==
    [pc : {"called"}, result : FilterTexts, key : {"a"}, cmd : {"ls"},
     expected_pattern : {"\\S", PyNone, "", "data"},
     unexpected_pattern : {PyNone, "<timeout>", "ERROR"},
     filter_func : {PyNone, "drop_first", "no_return"}]

InitFilter ==
    /\ NoSession
    /\ sh = NoBatch
    /\ fr \in FilterArgs
    /\ lk = NoLockfile
    /\ procs = NoProcesses

\* _filter_result runs to its end (collect.py:156-186)
FilterResult ==
    /\ fr.pc = "called"
    /\ LET f == filter_result(fr.result, fr.key, fr.cmd, fr.expected_pattern,
                              fr.unexpected_pattern, fr.filter_func)
       IN fr' = [pc |-> "done", args |-> fr,
                 out |-> IF f.ok THEN [how |-> "return", val |-> f.val]
                         ELSE raise_unexpected_result(f.val, fr.key, fr.cmd,
                                                      help_str(f.why))]
    /\ UNCHANGED session_vars
    /\ UNCHANGED <<sh, lk, procs>>

\* the value returned is handed to _filter_result again, with the same key,
\* command, patterns and filter (collect.py:156-186)
FilterAgain ==
    /\ fr.pc = "done"
    /\ fr.out.how = "return"
    /\ LET f == filter_result(fr.out.val, fr.args.key, fr.args.cmd,
                              fr.args.expected_pattern,
                              fr.args.unexpected_pattern, fr.args.filter_func)
       IN fr' = [pc |-> "again", args |-> fr.args, out |-> fr.out,
                 again |-> IF f.ok THEN [how |-> "return", val |-> f.val]
                           ELSE raise_unexpected_result(f.val, fr.args.key,
                                                        fr.args.cmd,
                                                        help_str(f.why))]
    /\ UNCHANGED session_vars
    /\ UNCHANGED <<sh, lk, procs>>

NextFilter ==
    \/ FilterResult
    \/ FilterAgain

SpecFilter == InitFilter /\ [][NextFilter]_vars

\* ------------------------------------------------------------ Lockfile
\* One Lockfile object of this process, and the other processes that lock
\* the same file.  lk.holder is who holds the fcntl lock of the file:
\* "none", "self" (this process) or "other".  The clock lk.now counts the
\* delays slept; a timeout is given in delays.

\* the most calls of acquire made on the object
MaxAcquires == 2

\* the timeout given to Lockfile(...): a number, or None for no timeout
\* (tools.py:75-76, 83)
IntTimeout(n) == [ty |-> "int", n |-> n]
NoneTimeout == [ty |-> "NoneType", n |-> 0]
LockTimeouts == {IntTimeout(0), IntTimeout(2), NoneTimeout}

\* Lockfile.__init__ (tools.py:83-91)
Lockfile(timeout, holder) ==
    [pc |-> "idle", timeout |-> timeout, is_locked |-> FALSE, start_time |-> 0,
     now |-> 0, holder |-> holder, ret |-> NoRet, acquires |-> 0]

InitLock ==
    /\ NoSession
    /\ sh = NoBatch
    /\ fr = NotCalled
    /\ lk \in {Lockfile(t, h) : t \in LockTimeouts, h \in {"none", "other"}}
    /\ procs = NoProcesses

\* "(time.time() - self.start_time) >= self.timeout" (tools.py:104): a
\* number is not ordered with None, the comparison raises TypeError
TimeoutReached(l) ==
    IF l.timeout.ty = "NoneType" THEN "TypeError"
    ELSE IF l.now - l.start_time >= l.timeout.n THEN "yes" ELSE "no"

\* acquire up to the first attempt (tools.py:93-96)
LockfileAcquire ==
    /\ lk.pc = "idle"
    /\ lk.acquires < MaxAcquires
    /\ lk' = [lk EXCEPT !.pc = "try", !.start_time = lk.now, !.ret = NoRet,
                        !.acquires = @ + 1]
    /\ UNCHANGED session_vars
    /\ UNCHANGED <<sh, fr, procs>>

\* one attempt (tools.py:97-110): open and fcntl.lockf(LOCK_EX | LOCK_NB).
\* The lock is got when no other process holds it; otherwise lockf raises
\* IOError with EAGAIN / EACCES, and acquire raises or goes to sleep.
\* open or lockf may also fail with another errno, which is raised again.
LockfileTry ==
    /\ lk.pc = "try"
    /\ \/ /\ lk.holder # "other"
          /\ lk' = [lk EXCEPT !.pc = "idle", !.holder = "self",
                              !.is_locked = TRUE,
                              !.ret = Return("acquire", <<>>, <<>>)]
       \/ /\ lk.holder = "other"
          /\ lk' = CASE TimeoutReached(lk) = "TypeError" ->
                          [lk EXCEPT !.pc = "idle",
                                     !.ret = Raise("acquire", "TypeError")]
                     [] TimeoutReached(lk) = "yes" ->
                          [lk EXCEPT !.pc = "idle",
                                     !.ret = Raise("acquire", "TimeoutError")]
                     [] OTHER -> [lk EXCEPT !.pc = "sleep"]
       \/ lk' = [lk EXCEPT !.pc = "idle", !.ret = Raise("acquire", "OSError")]
    /\ UNCHANGED session_vars
    /\ UNCHANGED <<sh, fr, procs>>

\* time.sleep(self.delay) returns (tools.py:107)
LockfileSleep ==
    /\ lk.pc = "sleep"
    /\ lk' = [lk EXCEPT !.pc = "try", !.now = @ + 1]
    /\ UNCHANGED session_vars
    /\ UNCHANGED <<sh, fr, procs>>

\* release (tools.py:112-122)
LockfileRelease ==
    /\ lk.pc = "idle"
    /\ lk.ret.op = "acquire"
    /\ lk' = IF lk.is_locked
             THEN [lk EXCEPT !.holder = "none", !.is_locked = FALSE,
                             !.ret = Return("release", <<>>, <<>>)]
             ELSE [lk EXCEPT !.ret = Return("release", <<>>, <<>>)]
    /\ UNCHANGED session_vars
    /\ UNCHANGED <<sh, fr, procs>>

\* another process locks the file, or unlocks it
OtherLocks ==
    /\ lk.pc # "none"
    /\ lk.holder = "none"
    /\ lk' = [lk EXCEPT !.holder = "other"]
    /\ UNCHANGED session_vars
    /\ UNCHANGED <<sh, fr, procs>>

OtherUnlocks ==
    /\ lk.pc # "none"
    /\ lk.holder = "other"
    /\ lk' = [lk EXCEPT !.holder = "none"]
    /\ UNCHANGED session_vars
    /\ UNCHANGED <<sh, fr, procs>>

NextLock ==
    \/ LockfileAcquire
    \/ LockfileTry
    \/ LockfileSleep
    \/ LockfileRelease
    \/ OtherLocks
    \/ OtherUnlocks

SpecLock == InitLock /\ [][NextLock]_vars

\* ------------------------------------------------------------ Lockfile,
\* several processes (tools.py:83-122).  Each process has its own Lockfile
\* object on the same filename.  The .lock file is a directory entry that
\* names an inode; fcntl.lockf locks the inode of the descriptor for the
\* process.  One action is one system call of acquire or release.

\* the processes
NProcs == 2
Procs == 1..NProcs

\* the inodes a .lock file may get: every process has at most one open,
\* the directory entry names at most one more
Inodes == 1..(NProcs + 1)
NoFile == 0
NoProc == 0

\* Lockfile.__init__ in every process (tools.py:83-91), no .lock file yet
Lockfiles ==
    [path |-> NoFile,
     lock |-> [i \in Inodes |-> NoProc],
     p |-> [q \in Procs |-> [pc |-> "idle", fd |-> NoFile, is_locked |-> FALSE]]]

\* an inode that no directory entry names and no process has open
FreeInode(m) ==
    CHOOSE i \in Inodes :
        /\ m.path # i
        /\ \A q \in Procs : m.p[q].fd # i

\* "self.fd = open(self.lockfile, 'w')" (tools.py:98): opens the inode the
\* name stands for, or creates one; made at every attempt of acquire
acquire_open(m, q) ==
    LET ino == IF m.path # NoFile THEN m.path ELSE FreeInode(m)
    IN [m EXCEPT !.path = ino,
                 !.p[q].fd = ino,
                 !.p[q].pc = "lockf"]

\* "fcntl.lockf(self.fd, LOCK_EX | LOCK_NB)" (tools.py:99-100, 108): the
\* lock of the inode is got when no other process has it
acquire_lockf(m, q) ==
    [m EXCEPT !.lock[m.p[q].fd] = q,
              !.p[q].is_locked = TRUE,
              !.p[q].pc = "held"]

\* acquire (tools.py:93-98): a process that has not the lock opens the
\* .lock file, at its first attempt or after a sleep
AcquireOpen ==
    /\ procs # NoProcesses
    /\ \E q \in Procs :
           /\ procs.p[q].pc \in {"idle", "sleep"}
           /\ procs' = acquire_open(procs, q)
    /\ UNCHANGED session_vars
    /\ UNCHANGED <<sh, fr, lk>>

\* acquire (tools.py:99-108): the attempt to lock; on EAGAIN / EACCES the
\* process raises TimeoutError or sleeps and tries again
AcquireLockf ==
    /\ procs # NoProcesses
    /\ \E q \in Procs :
           /\ procs.p[q].pc = "lockf"
           /\ IF procs.lock[procs.p[q].fd] = NoProc
              THEN procs' = acquire_lockf(procs, q)
              ELSE \E next \in {"sleep", "idle"} :
                      procs' = [procs EXCEPT !.p[q].pc = next]
    /\ UNCHANGED session_vars
    /\ UNCHANGED <<sh, fr, lk>>

\* release, "fcntl.lockf(self.fd, fcntl.LOCK_UN)" (tools.py:113-114)
ReleaseUnlock ==
    /\ procs # NoProcesses
    /\ \E q \in Procs :
           /\ procs.p[q].pc = "held"
           /\ procs' = [procs EXCEPT !.lock[procs.p[q].fd] = NoProc,
                                     !.p[q].pc = "unlocked"]
    /\ UNCHANGED session_vars
    /\ UNCHANGED <<sh, fr, lk>>

\* release, "self.fd.close()" (tools.py:115)
ReleaseClose ==
    /\ procs # NoProcesses
    /\ \E q \in Procs :
           /\ procs.p[q].pc = "unlocked"
           /\ procs' = [procs EXCEPT !.p[q].fd = NoFile,
                                     !.p[q].pc = "closed"]
    /\ UNCHANGED session_vars
    /\ UNCHANGED <<sh, fr, lk>>

\* release, "os.unlink(self.lockfile)" and "self.is_locked = False"
\* (tools.py:116-120): the name is removed, whatever inode it stands for;
\* the error of a name already removed is ignored
ReleaseUnlink ==
    /\ procs # NoProcesses
    /\ \E q \in Procs :
           /\ procs.p[q].pc = "closed"
           /\ procs' = [procs EXCEPT !.path = NoFile,
                                     !.p[q].is_locked = FALSE,
                                     !.p[q].pc = "idle"]
    /\ UNCHANGED session_vars
    /\ UNCHANGED <<sh, fr, lk>>

InitMutex ==
    /\ NoSession
    /\ sh = NoBatch
    /\ fr = NotCalled
    /\ lk = NoLockfile
    /\ procs = Lockfiles

NextMutex ==
    \/ AcquireOpen
    \/ AcquireLockf
    \/ ReleaseUnlock
    \/ ReleaseClose
    \/ ReleaseUnlink

SpecMutex == InitMutex /\ [][NextMutex]_vars

\* ------------------------------------------------------------ properties
EofError == "CollectError: No more data (EOF)"
TooManyError == "CollectError: Too many expect"
Sentinels == {KILL, BREAK, RESPONSE}

\* the last iteration of the engine acted on the control sentinel n
HitSentinel(n) == eng.hit.any /\ eng.hit.resp.ty = "int" /\ eng.hit.resp.n = n

\* the caller makes a call of run or mrun in this step
CallsRunOrMrun == ncalls' = ncalls + 1 /\ call'.op \in {"run", "mrun"}

\* the login of C1: the sequence built from these login_steps and prompt is
\* [[("Login: ","bob\n")], [("Password: ","secret\n")], [("$ ",None)]]
C1Stream == <<"Login: ", "Password: ", "$ ">>
C1Case ==
    /\ LoginSteps(conf) = LoginSteps(LoginC1)
    /\ ncalls = 0
    /\ stream = C1Stream

\* C1 as claimed: on the stream "Login: ", "Password: ", "$ " the login
\* sequence ends with success, "bob\n" and "secret\n" having been sent, and
\* the cursor has advanced exactly 3 times.
C1_ThreeAdvances ==
    C1Case => /\ pc = "idle"
              /\ eng.st = "ok"
              /\ sent = <<Wire("bob", TRUE), Wire("secret", TRUE)>>
              /\ eng.adv = 3

\* C1 amended: on that stream the engine ends with success after its third
\* read, "bob\n" and "secret\n" having been sent, and the cursor has advanced
\* exactly 2 times (from group 0 to group 2, the last one).
C1_TwoAdvances ==
    C1Case => /\ pc = "idle"
              /\ eng.st = "ok"
              /\ ret = Return("init", <<>>, <<>>)
              /\ sent = <<Wire("bob", TRUE), Wire("secret", TRUE)>>
              /\ eng.adv = 2
              /\ eng.step = 2

C1_Witness == C1Case /\ pc = "idle" /\ is_connected

\* no pattern of group n (1-based) was met by the reads of the current call
GroupAbsent(steps, n) ==
    \A i \in 1..Len(stream) : \A j \in 1..Len(steps[n]) :
        stream[i] # expect_pattern_rewrite(steps[n][j].pat)

\* C2 as claimed, for the first group of the login sequence of C1: when no
\* pattern of that group appears in the stream met by the login (a stream
\* that delivers text or ends, no silence), the login ends with the
\* end-of-stream CollectError.
C2_AbsentGroupEndsInStreamEnded ==
    (/\ LoginSteps(conf) = LoginSteps(LoginC1)
     /\ ncalls = 0
     /\ pc \in {"idle", "init_raised"}
     /\ \A i \in 1..Len(stream) : stream[i] \notin {"timeout", "alarm"}
     /\ GroupAbsent(LoginSteps(conf), 1))
    => ret = Raise("init", EofError)

\* C2 amended: whenever a read of the engine (login or logout, cursor at any
\* group) meets the end of the stream and pexpect.EOF is not one of the
\* candidates, that is when neither a pattern of the cursor's group nor one
\* of the lookahead group is found, the engine stops reading and the call
\* ends by raising the end-of-stream CollectError.
C2_StreamEndRaisesEof ==
    [][(/\ pc \in {"init_read", "close_read"}
        /\ stream' = Append(stream, "eof")
        /\ ~Has(Patterns(eng.steps, eng.step), PexpectEOF))
       => /\ eng'.st = EofError
          /\ eng'.step = eng.step
          /\ sent' = sent
          /\ pc' = IF pc = "init_read" THEN "init_raised" ELSE "idle"
          /\ ret' = Raise(IF pc = "init_read" THEN "init" ELSE call.op, EofError)]_vars

C2_Witness ==
    /\ pc = "init_raised"
    /\ ret = Raise("init", EofError)
    /\ stream[Len(stream)] = "eof"
    /\ eng.step = 1
    /\ GroupAbsent(eng.steps, 3)

\* C3 as claimed: whenever the engine raises 'Too many expect', the cursor's
\* own group has been found exactly 11 times since the cursor came to it,
\* at the first group as at a group reached after an advance.
C3_ElevenOwnMatches ==
    (eng.st = TooManyError) => eng.own = 11

\* C4 as claimed: when the step acted on carries a control sentinel the
\* engine has ended: with success for BREAK, with a failure payload for KILL
\* and RESPONSE.
C4_SentinelReturns ==
    \A n \in Sentinels :
        HitSentinel(n) => eng.st = (IF n = BREAK THEN "ok" ELSE "payload")

\* C5 as claimed: once KILL has been acted on the spawned command has been
\* killed; once RESPONSE has been acted on it has not.
C5_KillTerminates ==
    /\ HitSentinel(KILL) => eng.kills = 1
    /\ HitSentinel(RESPONSE) => eng.kills = 0

\* C6 as claimed: a login that fails inside the engine (KILL or RESPONSE
\* acted on, end of stream, too many attempts) makes __init__ raise
\* ConnectionError.
C6_LoginFailureIsConnectionError ==
    (/\ ret.op = "init"
     /\ ret.how = "raise"
     /\ stream # <<>>
     /\ \/ eng.st \in {"payload", EofError, TooManyError}
        \/ HitSentinel(KILL)
        \/ HitSentinel(RESPONSE))
    => ret.exc = "ConnectionError"

C8_NotConnectedRaisesFirst ==
    [][(pc = "idle" /\ ~is_connected /\ CallsRunOrMrun)
       => /\ ret' = Raise(call'.op, "NotConnected")
          /\ sent' = <<>>
          /\ stream' = <<>>
          /\ kills' = 0
          /\ pc' = "idle"
          /\ UNCHANGED <<conf, is_connected, in_with, before, alarm,
                         tn_open>>]_vars

C8_Witness ==
    /\ ret = Raise("mrun", "NotConnected")
    /\ call.cmds # <<>>
    /\ sent = <<>>
    /\ stream = <<>>

\* the logout of close was carried out in the current call: logout_cmd sent
\* once (when there is one), the logout steps followed to their end (when
\* there are some), child.kill(0) called; for Telnet, the connection closed
SentLogouts ==
    Cardinality({i \in 1..Len(sent) : sent[i] = Wire(conf.logout_cmd, TRUE)})

LogoutDone ==
    IF conf.cls = "Telnet" THEN ~tn_open
    ELSE /\ conf.logout_cmd # PyNone => SentLogouts = 1
         /\ conf.logout_steps # <<>>
            => eng.steps = conf.logout_steps /\ eng.st = "ok"
         /\ kills = 1

\* C9: outside a with-block, when run or mrun called with auto_close on
\* returns, the logout has been carried out and the session is not
\* connected; a run or mrun called next raises NotConnected.
ReturnedAutoClosed ==
    /\ pc = "idle"
    /\ ret.op \in {"run", "mrun"}
    /\ ret.how = "return"
    /\ call.auto_close
    /\ ~in_with

C10_WithBlockKeepsOpen ==
    /\ [](in_with => /\ SentLogouts = 0
                      /\ kills = 0
                      /\ conf.logout_steps # <<>>
                         => eng.steps # conf.logout_steps)
    /\ [][in_with /\ in_with'
          => is_connected' = is_connected /\ tn_open' = tn_open]_vars
    /\ [][in_with /\ ~in_with'
          => /\ ~is_connected'
             /\ call'.op = "exit"
             /\ conf.logout_cmd # PyNone => SentLogouts' = 1]_vars
    /\ []((call.op = "exit" /\ pc = "idle" /\ ret.how = "return") => LogoutDone)

C10_Witness ==
    /\ in_with
    /\ pc = "idle"
    /\ ret.op = "mrun"
    /\ ret.how = "return"
    /\ Len(ret.dct) = 2
    /\ call.auto_close
    /\ is_connected
    /\ conf.logout_steps # <<>>

\* the constructor is running (or has not run yet)
InInit == pc \in {"new", "init_read", "login_read", "passwd_read", "prompt_read"}

\* C11: once the constructor is over, a session that is not connected is
\* never connected again, whatever is called on it (run, mrun, close,
\* __enter__, __exit__), and each run or mrun called on it raises
\* NotConnected; the constructor is never run again.
C11_ClosedIsTerminal ==
    /\ [][(~InInit /\ ~is_connected) => ~is_connected']_vars
    /\ [][~InInit => ~InInit']_vars
    /\ [][(~InInit /\ ~is_connected /\ CallsRunOrMrun)
          => ret' = Raise(call'.op, "NotConnected")]_vars

C11_Witness ==
    /\ pc = "idle"
    /\ ~is_connected
    /\ in_with
    /\ ncalls >= 4
    /\ ret = Raise("run", "NotConnected")

\* the caller calls close in this step
CallsClose == ncalls' = ncalls + 1 /\ call'.op = "close"

\* C12 as claimed: close never raises, and a close called after a close
\* that returned outside a with-block writes nothing to the transport,
\* reads nothing from it and leaves the session as it was.
C12_CloseIdempotentNeverRaises ==
    /\ []((pc = "idle" /\ call.op = "close") => ret.how = "return")
    /\ [][(/\ pc = "idle"
           /\ call.op = "close"
           /\ ret.how = "return"
           /\ ~in_with
           /\ CallsClose)
          => /\ pc' = "idle"
             /\ ret' = Return("close", <<>>, <<>>)
             /\ sent' = <<>>
             /\ stream' = <<>>
             /\ UNCHANGED <<is_connected, in_with, tn_open>>]_vars

\* the run in progress, or the last one, saw the alarm of its Timeout fire
\* in the read of _run_cmd
RunTimedOut ==
    /\ call.op = "run"
    /\ stream # <<>>
    /\ stream[1] = "alarm"

\* C13 as claimed: a run whose Timeout expired ends as _filter_result
\* decides on '<timeout>': it raises UnexpectedResultError when the
\* effective unexpected pattern is found in '<timeout>' and returns
\* '<timeout>' otherwise.
C13_TimeoutSentinelValidated ==
    (pc = "idle" /\ RunTimedOut)
    => ret = IF LET up == Effective(call.unexpected_pattern,
                                    conf.unexpected_pattern)
                IN up \notin {PyNone, ""} /\ haspattern(TimeoutText, up)
             THEN Raise("run", "UnexpectedResultError")
             ELSE Return("run", TimeoutText, <<>>)

\* C14 as claimed: with the default settings of the session and of run, a
\* run whose Timeout expired raises nothing and returns None.
C14_TimeoutReturnsNone ==
    (pc = "idle" /\ RunTimedOut /\ call.unexpected_pattern = Zero)
    => (ret.how = "return" /\ ret.val = PyNone)

\* mrun is blocked in the read of _run_cmd for its command number call.i
MrunReading == pc \in {"mrun_read", "telnet_mrun_read"}

\* C15 as claimed, for a command that has a key: when the Timeout of a
\* command of mrun expires, '<timeout>' is stored under the key of that
\* command, the other keys keep their values, no UnexpectedResultError is
\* raised and the next command of the list, when there is one, is sent.
C15_TimeoutKeepsBatchGoing ==
    [][(/\ MrunReading
        /\ stream' = Append(stream, "alarm")
        /\ call.cmds[call.i][1] # "")
       => /\ call'.dct = DictSet(call.dct, call.cmds[call.i][1], TimeoutText)
          /\ call'.i = call.i + 1
          /\ ret'.how # "raise"
          /\ call.i < Len(call.cmds)
             => /\ pc' = pc
                /\ sent' = Append(sent, Wire(call.cmds[call.i + 1][2], TRUE))]_vars

\* the keys of the commands given
ShKeys == {sh.cmds[j][1] : j \in 1..Len(sh.cmds)}

\* the call returned a mapping where key k has value v
ShResult(k, v) ==
    /\ sh.ret.how = "return"
    /\ \E n \in 1..Len(sh.ret.dct) : sh.ret.dct[n] = <<ShKey(k, ""), v>>

\* C16: in mrunsh / mrunshex, when a command exceeds cmd_timeout while
\* total_timeout has not expired, the call still returns a result for every
\* key: the timeout sentinel for the slow command, the real output for the
\* others.
C16_SlowCommandDoesNotAbort ==
    (/\ sh.pc = "done"
     /\ sh.expired # <<>>
     /\ sh.now < sh.total_timeout
     /\ \A j \in 1..Len(sh.cmds) : sh.cmds[j][2] # "")
    => \A k \in ShKeys :
           IF \E n \in 1..Len(sh.expired) : sh.expired[n] = k
           THEN ShResult(k, TimeoutText)
           ELSE \E v \in Stdouts : ShResult(k, v)

\* C17: in mrunsh / mrunshex the aggregate deadline ends the batch: no
\* command is still running, and the batch does not return normally, once
\* more than total_timeout seconds have passed since the batch started,
\* every command having stayed within cmd_timeout.
C17_AggregateDeadlineEndsBatch ==
    sh.expired = <<>>
    => /\ sh.pc = "communicate" => sh.now <= sh.total_timeout
       /\ (sh.pc = "done" /\ sh.ret.how = "return") => sh.now <= sh.total_timeout

\* the Timeout of message m fires: its handler raises
GuardFires(m) ==
    sh.ret.how # "raise" /\ sh'.ret = Raise(sh.op, handle_timeout(m))

\* C18: a Timeout is cancelled on every way out of its block: no alarm is
\* pending when no Timeout block is active, a pending alarm is that of the
\* innermost active block, and a Timeout fires only inside its block.
C18_NoAlarmOutsideScope ==
    /\ [](sh.scopes = <<>> => sh.alarm_at = NoAlarm)
    /\ [](sh.alarm_at # NoAlarm
          => sh.scopes # <<>> /\ sh.handler = sh.scopes[Len(sh.scopes)])
    /\ [][\A m \in {CommandMessage, BatchMessage} :
            GuardFires(m) => \E n \in 1..Len(sh.scopes) : sh.scopes[n] = m]_vars

\* a block was left by an exception after a command had returned and time
\* had passed, another by its return; no alarm is left pending
C18_Witness ==
    /\ sh.pc = "done"
    /\ sh.ret = Raise("mrunshex", "UnexpectedResultError")
    /\ sh.now > 0
    /\ sh.dct # <<>>
    /\ sh.scopes = <<>>
    /\ sh.alarm_at = NoAlarm

\* the keys of the first n commands of the call that mrun keeps, in the
\* order of the command list
KeysKept(n) == SelectSeq([j \in 1..n |-> call.cmds[j][1]], KeepKey)

\* the keys of a mapping, in insertion order
KeysOf(dct) == [n \in 1..Len(dct) |-> dct[n][1]]

\* C19: Expect.mrun handles the commands in input order, one at a time:
\* when command i is on the transport, exactly the commands 1..i were sent,
\* in order, the reads of commands 1..i-1 are over and their validated
\* results are in the mapping, in input order; the mapping returned has its
\* keys in input order.
C19_MrunInOrderOneAtATime ==
    /\ pc = "mrun_read"
       => /\ sent = [j \in 1..call.i |-> Wire(call.cmds[j][2], TRUE)]
          /\ Len(stream) = call.i - 1
          /\ KeysOf(call.dct) = KeysKept(call.i - 1)
    /\ (/\ pc = "idle"
        /\ conf.cls = "Expect"
        /\ ret.op = "mrun"
        /\ ret.how = "return")
       => KeysOf(ret.dct) = KeysKept(Len(call.cmds))

\* the second command of a list is on the transport, the result of the
\* first one is in the mapping
C19_Witness ==
    /\ pc = "mrun_read"
    /\ call.i = 2
    /\ Len(sent) = 2
    /\ KeysOf(call.dct) = <<"a">>

\* C20: with the default settings (expected pattern \S, no unexpected
\* pattern, no filter) _filter_result on an empty text raises
\* UnexpectedResultError with the diagnostic 'empty result'; with the
\* expected pattern None or '' it never raises for missing expected
\* content, whatever the text.
C20_EmptyFailsUnlessNoExpectedPattern ==
    fr.pc = "done"
    => /\ (/\ fr.args.result = <<>>
           /\ fr.args.expected_pattern = "\\S"
           /\ fr.args.unexpected_pattern = PyNone
           /\ fr.args.filter_func = PyNone)
          => /\ fr.out.how = "raise"
             /\ fr.out.exc = "UnexpectedResultError"
             /\ fr.out.help_str = "-> empty result"
             /\ fr.out.result = <<"<empty result>">>
       /\ fr.args.expected_pattern \in {PyNone, ""}
          => (fr.out.how = "raise"
              => fr.out.help_str \notin {"-> empty result",
                                         "-> cannot find the pattern"})

\* _filter_result was applied to the empty text with the default settings
C20_Witness ==
    /\ fr.pc = "done"
    /\ fr.args.result = <<>>
    /\ fr.args.expected_pattern = "\\S"
    /\ fr.args.unexpected_pattern = PyNone
    /\ fr.args.filter_func = PyNone
    /\ fr.out.how = "raise"

C22_NoEchoNoPrompt ==
    (/\ pc = "idle"
     /\ ret.op = "run"
     /\ ret.how = "return")
    => \A i \in 1..Len(ret.val) : ret.val[i] \notin {call.cmd, "$ "}

\* the states in which an Expect session is blocked in a transport read
ExpectReading == pc \in {"init_read", "run_read", "mrun_read", "close_read"}

\* C23: every transport read of an Expect session (login steps, run, mrun,
\* logout steps of close) is made while a Timeout is armed.
C23_EveryReadIsGuarded ==
    (conf.cls = "Expect" /\ ExpectReading) => alarm

\* the step engine ended with a failure
EngineFailed(e) == e.st \notin {"idle", "loop", "read", "ok"}

\* C24: no failure is dropped without trace: when the step engine fails
\* (login or logout steps) the call raises, and when a command of
\* Expect.mrun meets its deadline the call raises or the sentinel is stored
\* under the command's key, the empty key included.
C24_NoFailureSwallowed ==
    /\ [][(eng' # eng /\ EngineFailed(eng')) => ret'.how = "raise"]_vars
    /\ [][(pc = "mrun_read" /\ stream' = Append(stream, "alarm"))
          => \/ ret'.how = "raise"
             \/ \E n \in 1..Len(call'.dct) :
                    call'.dct[n] = <<call.cmds[call.i][1], TimeoutText>>]_vars

\* the logout_cmd, when there is one, is the first thing close wrote
LogoutCmdFirst ==
    conf.logout_cmd # PyNone
    => (sent # <<>> /\ sent[1] = Wire(conf.logout_cmd, TRUE))

\* C25: Expect.close outside a with-block sends the logout_cmd first, then
\* follows the logout steps, and calls child.kill last; child.kill is
\* reached on every close, however the logout steps ended.
C25_CloseOrderAlwaysKills ==
    (conf.cls = "Expect" /\ call.op = "close" /\ ~in_with)
    => /\ pc = "close_read" => (LogoutCmdFirst /\ kills = 0)
       /\ pc = "idle" => (LogoutCmdFirst /\ kills = 1)

\* the call of acquire has ended
AcquireEnded == lk.pc = "idle" /\ lk.ret.op = "acquire"

\* C26: Lockfile.acquire waits until the lock is got or the timeout is
\* reached: it returns with is_locked true, or raises TimeoutError once the
\* time waited is at least the timeout, is_locked left false; with timeout
\* 0 it raises at the first failed attempt, without any wait; it never
\* waits longer than its timeout.  (A failure of open or lockf other than
\* the lock being held is left aside.)
C26_AcquireWaitsUntilLockedOrTimeout ==
    /\ (AcquireEnded /\ lk.ret.exc # "OSError")
       => \/ lk.ret.how = "return" /\ lk.is_locked /\ lk.holder = "self"
          \/ /\ lk.ret = Raise("acquire", "TimeoutError")
             /\ lk.timeout.ty = "int"
             /\ lk.now - lk.start_time >= lk.timeout.n
             /\ ~lk.is_locked
    /\ (AcquireEnded /\ lk.timeout = IntTimeout(0) /\ lk.ret.how = "raise")
       => lk.now = lk.start_time
    /\ (lk.pc \in {"try", "sleep"} /\ lk.timeout.ty = "int")
       => lk.now - lk.start_time <= lk.timeout.n

\* a transport read of _expect_steps returns in this step (login steps or
\* logout steps)
EngineStep ==
    /\ pc \in {"init_read", "close_read"}
    /\ eng.st = "read"
    /\ Len(stream') = Len(stream) + 1

\* what child.expect made of that read: the index found or the exception
LastRead ==
    LET ev == stream'[Len(stream')]
    IN child_expect(Patterns(eng.steps, eng.step),
                    [k |-> IF ev \in {"eof", "timeout", "alarm"} THEN ev ELSE "text",
                     pat |-> IF ev = "eof" THEN PexpectEOF ELSE ev])

\* the read found a step of the cursor's own group / of the next group
FoundOwn ==
    EngineStep /\ LastRead.k = "found"
    /\ LastRead.found < Len(eng.steps[eng.step + 1])
FoundAhead ==
    EngineStep /\ LastRead.k = "found"
    /\ LastRead.found >= Len(eng.steps[eng.step + 1])

\* the response of the step found, and what the transport has received once
\* a literal response is sent
FoundResp ==
    LET own == eng.steps[eng.step + 1]
    IN IF LastRead.found < Len(own) THEN own[LastRead.found + 1].resp
       ELSE eng.steps[eng.step + 2][LastRead.found + 1 - Len(own)].resp
SentAfterResp ==
    IF FoundResp.ty = "str"
    THEN Append(eng.sent, Wire(Format(FoundResp.s, conf.context), FoundResp.nl))
    ELSE eng.sent

\* C27: in _expect_steps, when the read finds a pattern of the cursor's own
\* group whose response is a text (or None), the response is sent, the
\* cursor stays on its step and infinite_loop_detect grows by exactly one.
C27_OwnMatchStaysAndCounts ==
    [][(FoundOwn /\ FoundResp.ty \in {"str", "none"})
       => /\ eng'.step = eng.step
          /\ eng'.infinite_loop_detect = eng.infinite_loop_detect + 1
          /\ eng'.sent = SentAfterResp]_vars

\* the engine waits at its first step after two matches of that step's own
\* pattern, each answered with a text
C27_Witness ==
    /\ pc = "init_read"
    /\ eng.st = "read"
    /\ eng.step = 0
    /\ eng.own = 2
    /\ eng.hit.resp.ty = "str"
    /\ Len(eng.sent) = 2

\* C28: in _expect_steps, when the read finds a pattern of the next group,
\* that step's response is sent if it is a text, the cursor advances by
\* exactly one and the retry counter is reset: the engine ends with success
\* at once when the new step is the last one, and otherwise the next read
\* starts with infinite_loop_detect = 0.
C28_AheadMatchAdvancesAndResets ==
    [][(FoundAhead /\ FoundResp.ty \in {"str", "none"})
       => /\ eng'.step = eng.step + 1
          /\ eng'.sent = SentAfterResp
          /\ IF eng.step + 1 = Len(eng.steps) - 1
             THEN eng'.st = "ok" /\ pc' \notin {"init_read", "close_read"}
             ELSE eng'.st = "read" => eng'.infinite_loop_detect = 0]_vars

\* C29: in _expect_steps a group made of one step whose pattern is None is
\* passed at once, without a read: the engine never waits, and never ends,
\* with its cursor on such a group, unless the response of the group is one
\* of KILL, BREAK, RESPONSE.
C29_PassGroupAdvances ==
    (/\ eng.steps # <<>>
     /\ eng.st # "idle"
     /\ eng.step < Len(eng.steps)
     /\ IsPassGroup(eng.steps, eng.step))
    => eng.steps[eng.step + 1][1].resp.ty = "int"

\* the patterns of group g (1-based) as handed to child.expect
GroupPatterns(g) ==
    [i \in 1..Len(eng.steps[g]) |-> expect_pattern_rewrite(eng.steps[g][i].pat)]

\* C30: at every read of _expect_steps the candidate patterns are those of
\* the cursor's group followed by those of the next group (the cursor's
\* group alone when it is the last); the cursor stays within the groups,
\* never goes back and moves by at most one per read.
C30_CandidatesAndCursor ==
    /\ [](eng.st = "read"
          => Patterns(eng.steps, eng.step)
               = IF eng.step + 1 < Len(eng.steps)
                 THEN GroupPatterns(eng.step + 1) \o GroupPatterns(eng.step + 2)
                 ELSE GroupPatterns(eng.step + 1))
    /\ [](eng.steps # <<>> => (0 <= eng.step /\ eng.step < Len(eng.steps)))
    /\ [][EngineStep => eng'.step \in {eng.step, eng.step + 1}]_vars

\* the engine waits at the second of three groups: the candidates are the
\* patterns of the second and of the third group
C30_Witness ==
    /\ pc = "init_read"
    /\ eng.st = "read"
    /\ eng.step = 1
    /\ Len(eng.steps) = 3
    /\ Patterns(eng.steps, eng.step) = <<"Password: ", "$ ">>

\* the text _filter_result works on once the filter has run
Transformed ==
    IF fr.args.filter_func = "drop_first" /\ fr.args.result # <<>>
    THEN Tail(fr.args.result)
    ELSE fr.args.result

\* the checks of _filter_result on the transformed text
UnexpectedFound ==
    /\ fr.args.unexpected_pattern \notin {PyNone, ""}
    /\ Transformed # <<>>
    /\ haspattern(Transformed, fr.args.unexpected_pattern)
ExpectedMissing ==
    /\ fr.args.expected_pattern \notin {PyNone, ""}
    /\ ~haspattern(Transformed, fr.args.expected_pattern)

\* C31: _filter_result applies the filter first (a None return leaves the
\* text as it is), then checks the unexpected pattern on the resulting
\* text, then the expected pattern: a text that has the unexpected pattern
\* and lacks the expected one is reported for the unexpected pattern, and
\* the value returned on success is the transformed text.
C31_FilterThenUnexpectedThenExpected ==
    fr.pc = "done"
    => IF UnexpectedFound
       THEN fr.out.how = "raise" /\ fr.out.help_str = "-> found the pattern"
       ELSE IF ExpectedMissing
       THEN /\ fr.out.how = "raise"
            /\ fr.out.help_str \in {"-> empty result", "-> cannot find the pattern"}
       ELSE fr.out = [how |-> "return", val |-> Transformed]

\* a text that has the unexpected pattern and lacks the expected one was
\* checked after a filter that returned None
C31_Witness ==
    /\ fr.pc = "done"
    /\ fr.args.filter_func = "no_return"
    /\ fr.args.result = <<"ERROR: disk full">>
    /\ UnexpectedFound
    /\ ExpectedMissing
    /\ fr.out.how = "raise"

\* a read of a command of mrun has returned an output text or the deadline
\* of the command has expired
PairOutcome ==
    /\ MrunReading
    /\ Len(stream') = Len(stream) + 1
    /\ stream'[Len(stream')] \notin {"eof", "timeout"}

\* C32: Expect.mrun and Telnet.mrun apply the same batch logic to a pair
\* and its outcome (an output text or a deadline expiry): a pair with an
\* empty key is run and its outcome is neither validated nor stored; a pair
\* with a key is validated, and either UnexpectedResultError is raised or
\* the validated text is stored under the key and the batch goes on.
C32_SameBatchLogic ==
    [][PairOutcome
       => IF call.cmds[call.i][1] = ""
          THEN /\ call'.dct = call.dct
               /\ ret'.how # "raise"
               /\ call'.i = call.i + 1
          ELSE \/ ret' = Raise("mrun", "UnexpectedResultError")
               \/ /\ ret'.how # "raise"
                  /\ call'.i = call.i + 1
                  /\ \E n \in 1..Len(call'.dct) :
                        call'.dct[n][1] = call.cmds[call.i][1]]_vars

\* C32 for Expect.mrun alone
C32_ExpectBatchLogic ==
    [][(PairOutcome /\ conf.cls = "Expect")
       => IF call.cmds[call.i][1] = ""
          THEN /\ call'.dct = call.dct
               /\ ret'.how # "raise"
               /\ call'.i = call.i + 1
          ELSE \/ ret' = Raise("mrun", "UnexpectedResultError")
               \/ /\ ret'.how # "raise"
                  /\ call'.i = call.i + 1
                  /\ \E n \in 1..Len(call'.dct) :
                        call'.dct[n][1] = call.cmds[call.i][1]]_vars

\* a variant of _expect_steps: the groups left, then the iterations left
\* before the loop detection fires
EngineRank(e) ==
    (Len(e.steps) - e.step) * (LoopLimit + 2)
    + (LoopLimit + 1 - e.infinite_loop_detect)

\* a transport read of _expect_steps returns a match or the end of the
\* stream in this step
EngineReadReturns ==
    /\ EngineStep
    /\ stream'[Len(stream')] \notin {"timeout", "alarm"}

\* the iterations of _expect_steps are bounded: a read that returns leaves
\* the engine ended or blocked in a read with a smaller variant, and no
\* cursor position sees more than LoopLimit + 1 iterations
C33_BoundedIterations ==
    /\ [][(EngineReadReturns /\ eng'.st = "read")
          => EngineRank(eng') < EngineRank(eng)]_vars
    /\ [](eng.own <= LoopLimit + 1 /\ eng.infinite_loop_detect <= LoopLimit + 1)
    /\ [](eng.st = "read" => eng.own <= LoopLimit)

\* C33: _expect_steps terminates when every transport read returns: it
\* makes at most LoopLimit + 1 iterations per cursor position, each read
\* that returns brings it nearer to its end, and it ends with success, a
\* failure payload or a CollectError.
C33_EngineTerminates ==
    /\ C33_BoundedIterations
    /\ [][EngineReadReturns
          => eng'.st \in {"read", "ok", "payload", EofError, TooManyError}]_vars

\* C34: for a sequence made of exactly one group (a session built with a
\* prompt and no login steps), a single match of the only group completes
\* the sequence: when a read finds a step of that group whose response is
\* not a control sentinel, _expect_steps returns success.
C34_SingleGroupCompletes ==
    [][(/\ FoundOwn
        /\ Len(eng.steps) = 1
        /\ eng'.hit.resp.ty # "int")
       => eng'.st = "ok"]_vars

\* a call of Expect.run or Expect.mrun with auto_close, made outside a
\* with-block on a connected session, has ended
AutoCloseCallEnded ==
    /\ conf.cls = "Expect"
    /\ pc = "idle"
    /\ ret.op \in {"run", "mrun"}
    /\ ret.op = call.op
    /\ ret.how \in {"return", "raise"}
    /\ ret.exc # "NotConnected"
    /\ call.auto_close
    /\ ~in_with

\* C35: outside a with-block and with auto_close, a session is never left
\* connected after run or mrun has ended, whether the call returned or
\* raised: is_connected is False and the logout command, when there is
\* one, has been sent.
C35_AutoCloseOnEveryExit ==
    AutoCloseCallEnded
    => /\ ~is_connected
       /\ conf.logout_cmd # PyNone
          => \E n \in 1..Len(sent) : sent[n] = Wire(conf.logout_cmd, TRUE)

\* C35 for the calls that return
C35_AutoCloseOnReturn ==
    (AutoCloseCallEnded /\ ret.how = "return")
    => /\ ~is_connected
       /\ conf.logout_cmd # PyNone
          => \E n \in 1..Len(sent) : sent[n] = Wire(conf.logout_cmd, TRUE)

\* C39: a failed connect of Expect does not leak the transport: when the
\* login sequence fails and the constructor raises, the spawned command has
\* been terminated (child.kill was called).
C39_FailedConnectKillsChild ==
    (conf.cls = "Expect" /\ pc = "init_raised") => kills >= 1

\* an inner Timeout block (that of a command in runshex) has been left and
\* the outer one (that of mrunsh) is still active: the next command runs
InnerLeftOuterActive ==
    /\ sh.pc = "communicate"
    /\ sh.i > 1
    /\ sh.scopes[1] = BatchMessage

\* C37: Timeout blocks compose when nested: once an inner block has been
\* left while the outer block is active, the deadline of the outer block
\* is still armed (an alarm is pending, due no later than the outer
\* deadline) and, when it is the next to expire, it raises TimeoutError
\* with the outer block's own message.
C37_OuterDeadlineStaysArmed ==
    InnerLeftOuterActive
    => /\ sh.alarm_at # NoAlarm
       /\ sh.alarm_at <= sh.total_timeout
       /\ sh.started + sh.cmd_timeout > sh.total_timeout
          => sh.handler = BatchMessage

\* C36: in Expect.mrun the output stored for a command was produced by
\* that command: after the deadline of a command has expired, its late
\* output is never stored as the output of a command sent after it.
C36_NoLateOutputCaptured ==
    (conf.cls = "Expect" /\ call.op = "mrun")
    => \A n \in 1..Len(call.dct) :
          \A j \in 1..Len(call.dct[n][2]) : call.dct[n][2][j] # "late"

\* the process has the lock: its acquire has returned, its release has not
\* begun
HasLock(q) == procs.p[q].is_locked /\ procs.p[q].pc = "held"

\* C38: Lockfile gives mutual exclusion: whatever the interleaving of the
\* steps of acquire (open, lock, retry) and release (unlock, close, unlink)
\* of the processes that use the same filename, at most one process has
\* the lock at any time.
C38_MutualExclusion ==
    procs # NoProcesses
    => \A q1, q2 \in Procs : (HasLock(q1) /\ HasLock(q2)) => q1 = q2

====
